---- MODULE Spec2Model ----
(***************************************************************************)
(* Incident Intelligence UI: the AI flow panel (query classifier, pipeline *)
(* animator, response orchestrator) of AIFlowPanelContent.                 *)
(*                                                                         *)
(* Text is a sequence of one-character strings.  Time is counted in        *)
(* milliseconds and advances in steps of TickMs.                           *)
(***************************************************************************)
EXTENDS Integers, Sequences, FiniteSets, TLC

(***************************************************************************)
(* Regular expressions (the subset of the JavaScript syntax the patterns   *)
(* use), as syntax trees, and RegExp.prototype.test with the i flag.       *)
(***************************************************************************)
Lit(s) == [t |-> "lit", s |-> s]
Cls(c) == [t |-> "cls", c |-> c]
AnyChar == [t |-> "any"]
Bol == [t |-> "bol"]
\* a pattern written without its closing $
Eol_Unanchored == [t |-> "cat", rs |-> <<>>]
Eol == [t |-> "eol"]
WordBoundary == [t |-> "wb"]
Cat(rs) == [t |-> "cat", rs |-> rs]
Alt(rs) == [t |-> "alt", rs |-> rs]
Star(r) == [t |-> "star", r |-> r]
Plus(r) == [t |-> "plus", r |-> r]
Opt(r) == [t |-> "opt", r |-> r]

\* \s restricted to the ASCII white space and line terminators
WhiteSpace == {" ", "\t", "\n", "\r", "\f"}
LineTerminator == {"\n", "\r"}

UpperCase ==
  {"A", "B", "C", "D", "E", "F", "G", "H", "I", "J", "K", "L", "M",
   "N", "O", "P", "Q", "R", "S", "T", "U", "V", "W", "X", "Y", "Z"}
LowerCase ==
  {"a", "b", "c", "d", "e", "f", "g", "h", "i", "j", "k", "l", "m",
   "n", "o", "p", "q", "r", "s", "t", "u", "v", "w", "x", "y", "z"}
Digit == {"0", "1", "2", "3", "4", "5", "6", "7", "8", "9"}
\* \w, the word characters that \b looks at
WordChar == UpperCase \cup LowerCase \cup Digit \cup {"_"}

\* case folding of the i flag: the two cases of a letter compare equal
Canonicalize(ch) ==
  CASE ch = "A" -> "a" [] ch = "B" -> "b" [] ch = "C" -> "c" [] ch = "D" -> "d"
    [] ch = "E" -> "e" [] ch = "F" -> "f" [] ch = "G" -> "g" [] ch = "H" -> "h"
    [] ch = "I" -> "i" [] ch = "J" -> "j" [] ch = "K" -> "k" [] ch = "L" -> "l"
    [] ch = "M" -> "m" [] ch = "N" -> "n" [] ch = "O" -> "o" [] ch = "P" -> "p"
    [] ch = "Q" -> "q" [] ch = "R" -> "r" [] ch = "S" -> "s" [] ch = "T" -> "t"
    [] ch = "U" -> "u" [] ch = "V" -> "v" [] ch = "W" -> "w" [] ch = "X" -> "x"
    [] ch = "Y" -> "y" [] ch = "Z" -> "z" [] OTHER -> ch

IsWordAt(s, i) == i >= 1 /\ i <= Len(s) /\ s[i] \in WordChar

RECURSIVE Ends(_, _, _)
RECURSIVE CatEnds(_, _, _, _)
RECURSIVE StarEnds(_, _, _)

\* the positions after the matches of rs[k], rs[k+1], ... that start at a
\* position of P
CatEnds(rs, k, s, P) ==
  IF k > Len(rs) \/ P = {} THEN P
  ELSE CatEnds(rs, k + 1, s, UNION {Ends(rs[k], s, p) : p \in P})

\* the positions reached from P by zero or more matches of r
StarEnds(r, s, P) ==
  LET N == P \cup UNION {Ends(r, s, p) : p \in P}
  IN  IF N = P THEN P ELSE StarEnds(r, s, N)

\* Ends(r, s, i): the positions j such that r matches s[i] .. s[j-1]
Ends(r, s, i) ==
  CASE r.t = "lit" ->
         IF /\ i + Len(r.s) - 1 <= Len(s)
            /\ \A k \in 1..Len(r.s) :
                 Canonicalize(s[i + k - 1]) = Canonicalize(r.s[k])
         THEN {i + Len(r.s)} ELSE {}
    [] r.t = "cls" ->
         IF i <= Len(s) /\ s[i] \in r.c THEN {i + 1} ELSE {}
    [] r.t = "any" ->
         IF i <= Len(s) /\ s[i] \notin LineTerminator THEN {i + 1} ELSE {}
    [] r.t = "bol" -> IF i = 1 THEN {i} ELSE {}
    [] r.t = "eol" -> IF i = Len(s) + 1 THEN {i} ELSE {}
    [] r.t = "wb" ->
         IF IsWordAt(s, i - 1) # IsWordAt(s, i) THEN {i} ELSE {}
    [] r.t = "cat" -> CatEnds(r.rs, 1, s, {i})
    [] r.t = "alt" -> UNION {Ends(r.rs[k], s, i) : k \in 1..Len(r.rs)}
    [] r.t = "star" -> StarEnds(r.r, s, {i})
    [] r.t = "plus" -> StarEnds(r.r, s, Ends(r.r, s, i))
    [] r.t = "opt" -> {i} \cup Ends(r.r, s, i)

\* p.test(msg): some substring of msg matches p
test(p, msg) == \E i \in 1..(Len(msg) + 1) : Ends(p, msg, i) # {}

\* String.prototype.trim
RECURSIVE trimStart(_)
RECURSIVE trimEnd(_)
trimStart(s) ==
  IF s # <<>> /\ Head(s) \in WhiteSpace THEN trimStart(Tail(s)) ELSE s
trimEnd(s) ==
  IF s # <<>> /\ s[Len(s)] \in WhiteSpace
  THEN trimEnd(SubSeq(s, 1, Len(s) - 1)) ELSE s
trim(s) == trimEnd(trimStart(s))

GREETING_PATTERNS ==
  << \* /^(hi|hello|hey|hii+|helo+)[\s!.,?]*$/i
     Cat(<<Bol, Alt(<<Lit(<<"h", "i">>), Lit(<<"h", "e", "l", "l", "o">>), Lit(<<"h", "e", "y">>), Cat(<<Lit(<<"h", "i">>), Plus(Lit(<<"i">>))>>), Cat(<<Lit(<<"h", "e", "l">>), Plus(Lit(<<"o">>))>>)>>), Star(Cls(WhiteSpace \cup {"!", ".", ",", "?"})), Eol>>),
     \* /^(good\s*)?(morning|afternoon|evening|night)[\s!.,?]*$/i
     Cat(<<Bol, Opt(Cat(<<Lit(<<"g", "o", "o", "d">>), Star(Cls(WhiteSpace))>>)), Alt(<<Lit(<<"m", "o", "r", "n", "i", "n", "g">>), Lit(<<"a", "f", "t", "e", "r", "n", "o", "o", "n">>), Lit(<<"e", "v", "e", "n", "i", "n", "g">>), Lit(<<"n", "i", "g", "h", "t">>)>>), Star(Cls(WhiteSpace \cup {"!", ".", ",", "?"})), Eol>>),
     \* /^(howdy|hiya|yo|sup)[\s!.,?]*$/i
     Cat(<<Bol, Alt(<<Lit(<<"h", "o", "w", "d", "y">>), Lit(<<"h", "i", "y", "a">>), Lit(<<"y", "o">>), Lit(<<"s", "u", "p">>)>>), Star(Cls(WhiteSpace \cup {"!", ".", ",", "?"})), Eol>>),
     \* /^how\s*(are|r)\s*(you|u|ya)[\s!.,?]*$/i
     Cat(<<Bol, Lit(<<"h", "o", "w">>), Star(Cls(WhiteSpace)), Alt(<<Lit(<<"a", "r", "e">>), Lit(<<"r">>)>>), Star(Cls(WhiteSpace)), Alt(<<Lit(<<"y", "o", "u">>), Lit(<<"u">>), Lit(<<"y", "a">>)>>), Star(Cls(WhiteSpace \cup {"!", ".", ",", "?"})), Eol>>),
     \* /^what'?s\s*up[\s!.,?]*$/i
     Cat(<<Bol, Lit(<<"w", "h", "a", "t">>), Opt(Lit(<<"'">>)), Lit(<<"s">>), Star(Cls(WhiteSpace)), Lit(<<"u", "p">>), Star(Cls(WhiteSpace \cup {"!", ".", ",", "?"})), Eol>>),
     \* /^(who|what)\s*(are|r)\s*(you|u)[\s!.,?]*$/i
     Cat(<<Bol, Alt(<<Lit(<<"w", "h", "o">>), Lit(<<"w", "h", "a", "t">>)>>), Star(Cls(WhiteSpace)), Alt(<<Lit(<<"a", "r", "e">>), Lit(<<"r">>)>>), Star(Cls(WhiteSpace)), Alt(<<Lit(<<"y", "o", "u">>), Lit(<<"u">>)>>), Star(Cls(WhiteSpace \cup {"!", ".", ",", "?"})), Eol>>),
     \* /^(help|help me)[\s!.,?]*$/i
     Cat(<<Bol, Alt(<<Lit(<<"h", "e", "l", "p">>), Lit(<<"h", "e", "l", "p", " ", "m", "e">>)>>), Star(Cls(WhiteSpace \cup {"!", ".", ",", "?"})), Eol>>),
     \* /^(thanks?|thank\s*you|ty)[\s!.,?]*$/i
     Cat(<<Bol, Alt(<<Cat(<<Lit(<<"t", "h", "a", "n", "k">>), Opt(Lit(<<"s">>))>>), Cat(<<Lit(<<"t", "h", "a", "n", "k">>), Star(Cls(WhiteSpace)), Lit(<<"y", "o", "u">>)>>), Lit(<<"t", "y">>)>>), Star(Cls(WhiteSpace \cup {"!", ".", ",", "?"})), Eol>>),
     \* /^(bye|goodbye|see\s*you?|later)[\s!.,?]*$/i
     Cat(<<Bol, Alt(<<Lit(<<"b", "y", "e">>), Lit(<<"g", "o", "o", "d", "b", "y", "e">>), Cat(<<Lit(<<"s", "e", "e">>), Star(Cls(WhiteSpace)), Lit(<<"y", "o">>), Opt(Lit(<<"u">>))>>), Lit(<<"l", "a", "t", "e", "r">>)>>), Star(Cls(WhiteSpace \cup {"!", ".", ",", "?"})), Eol>>) >>

KEYWORD_PATTERNS ==
  << \* /^(show|list|find|get|display|fetch)\s+(all\s+)?(incidents?|issues?|problems?|records?)/i
     Cat(<<Bol, Alt(<<Lit(<<"s", "h", "o", "w">>), Lit(<<"l", "i", "s", "t">>), Lit(<<"f", "i", "n", "d">>), Lit(<<"g", "e", "t">>), Lit(<<"d", "i", "s", "p", "l", "a", "y">>), Lit(<<"f", "e", "t", "c", "h">>)>>), Plus(Cls(WhiteSpace)), Opt(Cat(<<Lit(<<"a", "l", "l">>), Plus(Cls(WhiteSpace))>>)), Alt(<<Cat(<<Lit(<<"i", "n", "c", "i", "d", "e", "n", "t">>), Opt(Lit(<<"s">>))>>), Cat(<<Lit(<<"i", "s", "s", "u", "e">>), Opt(Lit(<<"s">>))>>), Cat(<<Lit(<<"p", "r", "o", "b", "l", "e", "m">>), Opt(Lit(<<"s">>))>>), Cat(<<Lit(<<"r", "e", "c", "o", "r", "d">>), Opt(Lit(<<"s">>))>>)>>)>>),
     \* /^(critical|high|medium|low)\s+(incidents?|issues?)/i
     Cat(<<Bol, Alt(<<Lit(<<"c", "r", "i", "t", "i", "c", "a", "l">>), Lit(<<"h", "i", "g", "h">>), Lit(<<"m", "e", "d", "i", "u", "m">>), Lit(<<"l", "o", "w">>)>>), Plus(Cls(WhiteSpace)), Alt(<<Cat(<<Lit(<<"i", "n", "c", "i", "d", "e", "n", "t">>), Opt(Lit(<<"s">>))>>), Cat(<<Lit(<<"i", "s", "s", "u", "e">>), Opt(Lit(<<"s">>))>>)>>)>>),
     \* /^(how\s+many|count)\s+(incidents?|issues?)/i
     Cat(<<Bol, Alt(<<Cat(<<Lit(<<"h", "o", "w">>), Plus(Cls(WhiteSpace)), Lit(<<"m", "a", "n", "y">>)>>), Lit(<<"c", "o", "u", "n", "t">>)>>), Plus(Cls(WhiteSpace)), Alt(<<Cat(<<Lit(<<"i", "n", "c", "i", "d", "e", "n", "t">>), Opt(Lit(<<"s">>))>>), Cat(<<Lit(<<"i", "s", "s", "u", "e">>), Opt(Lit(<<"s">>))>>)>>)>>),
     \* /^(open|closed|resolved|active)\s+(incidents?|issues?)/i
     Cat(<<Bol, Alt(<<Lit(<<"o", "p", "e", "n">>), Lit(<<"c", "l", "o", "s", "e", "d">>), Lit(<<"r", "e", "s", "o", "l", "v", "e", "d">>), Lit(<<"a", "c", "t", "i", "v", "e">>)>>), Plus(Cls(WhiteSpace)), Alt(<<Cat(<<Lit(<<"i", "n", "c", "i", "d", "e", "n", "t">>), Opt(Lit(<<"s">>))>>), Cat(<<Lit(<<"i", "s", "s", "u", "e">>), Opt(Lit(<<"s">>))>>)>>)>>),
     \* /^(incidents?|issues?)\s+(from|in|at)\s+/i
     Cat(<<Bol, Alt(<<Cat(<<Lit(<<"i", "n", "c", "i", "d", "e", "n", "t">>), Opt(Lit(<<"s">>))>>), Cat(<<Lit(<<"i", "s", "s", "u", "e">>), Opt(Lit(<<"s">>))>>)>>), Plus(Cls(WhiteSpace)), Alt(<<Lit(<<"f", "r", "o", "m">>), Lit(<<"i", "n">>), Lit(<<"a", "t">>)>>), Plus(Cls(WhiteSpace))>>),
     \* /^(recent|latest|new)\s+(incidents?|issues?)/i
     Cat(<<Bol, Alt(<<Lit(<<"r", "e", "c", "e", "n", "t">>), Lit(<<"l", "a", "t", "e", "s", "t">>), Lit(<<"n", "e", "w">>)>>), Plus(Cls(WhiteSpace)), Alt(<<Cat(<<Lit(<<"i", "n", "c", "i", "d", "e", "n", "t">>), Opt(Lit(<<"s">>))>>), Cat(<<Lit(<<"i", "s", "s", "u", "e">>), Opt(Lit(<<"s">>))>>)>>)>>) >>

CRUD_PATTERNS ==
  << \* /^(create|add|new|insert)\s+(an?\s+)?(incident|issue|record)/i
     Cat(<<Bol, Alt(<<Lit(<<"c", "r", "e", "a", "t", "e">>), Lit(<<"a", "d", "d">>), Lit(<<"n", "e", "w">>), Lit(<<"i", "n", "s", "e", "r", "t">>)>>), Plus(Cls(WhiteSpace)), Opt(Cat(<<Lit(<<"a">>), Opt(Lit(<<"n">>)), Plus(Cls(WhiteSpace))>>)), Alt(<<Lit(<<"i", "n", "c", "i", "d", "e", "n", "t">>), Lit(<<"i", "s", "s", "u", "e">>), Lit(<<"r", "e", "c", "o", "r", "d">>)>>)>>),
     \* /^(update|edit|modify|change)\s+(the\s+)?(incident|issue)/i
     Cat(<<Bol, Alt(<<Lit(<<"u", "p", "d", "a", "t", "e">>), Lit(<<"e", "d", "i", "t">>), Lit(<<"m", "o", "d", "i", "f", "y">>), Lit(<<"c", "h", "a", "n", "g", "e">>)>>), Plus(Cls(WhiteSpace)), Opt(Cat(<<Lit(<<"t", "h", "e">>), Plus(Cls(WhiteSpace))>>)), Alt(<<Lit(<<"i", "n", "c", "i", "d", "e", "n", "t">>), Lit(<<"i", "s", "s", "u", "e">>)>>)>>),
     \* /^(delete|remove|close)\s+(the\s+)?(incident|issue)/i
     Cat(<<Bol, Alt(<<Lit(<<"d", "e", "l", "e", "t", "e">>), Lit(<<"r", "e", "m", "o", "v", "e">>), Lit(<<"c", "l", "o", "s", "e">>)>>), Plus(Cls(WhiteSpace)), Opt(Cat(<<Lit(<<"t", "h", "e">>), Plus(Cls(WhiteSpace))>>)), Alt(<<Lit(<<"i", "n", "c", "i", "d", "e", "n", "t">>), Lit(<<"i", "s", "s", "u", "e">>)>>)>>),
     \* /^(mark|set)\s+(incident|issue).*(resolved|closed|open)/i
     Cat(<<Bol, Alt(<<Lit(<<"m", "a", "r", "k">>), Lit(<<"s", "e", "t">>)>>), Plus(Cls(WhiteSpace)), Alt(<<Lit(<<"i", "n", "c", "i", "d", "e", "n", "t">>), Lit(<<"i", "s", "s", "u", "e">>)>>), Star(AnyChar), Alt(<<Lit(<<"r", "e", "s", "o", "l", "v", "e", "d">>), Lit(<<"c", "l", "o", "s", "e", "d">>), Lit(<<"o", "p", "e", "n">>)>>)>>) >>

REASONING_PATTERNS ==
  << \* /\b(why|how|explain|analyze|analysis|reason|cause|root\s*cause)\b/i
     Cat(<<WordBoundary, Alt(<<Lit(<<"w", "h", "y">>), Lit(<<"h", "o", "w">>), Lit(<<"e", "x", "p", "l", "a", "i", "n">>), Lit(<<"a", "n", "a", "l", "y", "z", "e">>), Lit(<<"a", "n", "a", "l", "y", "s", "i", "s">>), Lit(<<"r", "e", "a", "s", "o", "n">>), Lit(<<"c", "a", "u", "s", "e">>), Cat(<<Lit(<<"r", "o", "o", "t">>), Star(Cls(WhiteSpace)), Lit(<<"c", "a", "u", "s", "e">>)>>)>>), WordBoundary>>),
     \* /\b(pattern|trend|insight|summary|summarize|overview)\b/i
     Cat(<<WordBoundary, Alt(<<Lit(<<"p", "a", "t", "t", "e", "r", "n">>), Lit(<<"t", "r", "e", "n", "d">>), Lit(<<"i", "n", "s", "i", "g", "h", "t">>), Lit(<<"s", "u", "m", "m", "a", "r", "y">>), Lit(<<"s", "u", "m", "m", "a", "r", "i", "z", "e">>), Lit(<<"o", "v", "e", "r", "v", "i", "e", "w">>)>>), WordBoundary>>),
     \* /\b(recommend|suggest|should|could|prevent|avoid)\b/i
     Cat(<<WordBoundary, Alt(<<Lit(<<"r", "e", "c", "o", "m", "m", "e", "n", "d">>), Lit(<<"s", "u", "g", "g", "e", "s", "t">>), Lit(<<"s", "h", "o", "u", "l", "d">>), Lit(<<"c", "o", "u", "l", "d">>), Lit(<<"p", "r", "e", "v", "e", "n", "t">>), Lit(<<"a", "v", "o", "i", "d">>)>>), WordBoundary>>),
     \* /\b(compare|correlation|related|similar)\b/i
     Cat(<<WordBoundary, Alt(<<Lit(<<"c", "o", "m", "p", "a", "r", "e">>), Lit(<<"c", "o", "r", "r", "e", "l", "a", "t", "i", "o", "n">>), Lit(<<"r", "e", "l", "a", "t", "e", "d">>), Lit(<<"s", "i", "m", "i", "l", "a", "r">>)>>), WordBoundary>>),
     \* /\b(what\s+happened|tell\s+me\s+about|describe)\b/i
     Cat(<<WordBoundary, Alt(<<Cat(<<Lit(<<"w", "h", "a", "t">>), Plus(Cls(WhiteSpace)), Lit(<<"h", "a", "p", "p", "e", "n", "e", "d">>)>>), Cat(<<Lit(<<"t", "e", "l", "l">>), Plus(Cls(WhiteSpace)), Lit(<<"m", "e">>), Plus(Cls(WhiteSpace)), Lit(<<"a", "b", "o", "u", "t">>)>>), Lit(<<"d", "e", "s", "c", "r", "i", "b", "e">>)>>), WordBoundary>>) >>

\* Array.prototype.some over a pattern family
some(patterns, msg) == \E k \in 1..Len(patterns) : test(patterns[k], msg)

\* keyword patterns tried before the crud patterns
classifyQuery_KeywordFirst(message) ==
  LET msg == trim(message)
  IN  IF some(GREETING_PATTERNS, msg) THEN "greeting"
      ELSE IF some(KEYWORD_PATTERNS, msg) THEN "keyword"
      ELSE IF some(CRUD_PATTERNS, msg) THEN "crud"
      ELSE IF some(REASONING_PATTERNS, msg) THEN "reasoning"
      ELSE "reasoning"

\* the patterns tried on the text as typed
classifyQuery_NoTrim(message) ==
  LET msg == message
  IN  IF some(GREETING_PATTERNS, msg) THEN "greeting"
      ELSE IF some(CRUD_PATTERNS, msg) THEN "crud"
      ELSE IF some(KEYWORD_PATTERNS, msg) THEN "keyword"
      ELSE IF some(REASONING_PATTERNS, msg) THEN "reasoning"
      ELSE "reasoning"

\* no default: a text outside every family is handed to the keyword search
classifyQuery_KeywordDefault(message) ==
  LET msg == trim(message)
  IN  IF some(GREETING_PATTERNS, msg) THEN "greeting"
      ELSE IF some(CRUD_PATTERNS, msg) THEN "crud"
      ELSE IF some(KEYWORD_PATTERNS, msg) THEN "keyword"
      ELSE IF some(REASONING_PATTERNS, msg) THEN "reasoning"
      ELSE "keyword"

classifyQuery(message) ==
  LET msg == trim(message)
  IN  IF some(GREETING_PATTERNS, msg) THEN "greeting"
      ELSE IF some(CRUD_PATTERNS, msg) THEN "crud"
      ELSE IF some(KEYWORD_PATTERNS, msg) THEN "keyword"
      ELSE IF some(REASONING_PATTERNS, msg) THEN "reasoning"
      ELSE "reasoning"

(***************************************************************************)
(* Static configuration of AIFlowPanel                                     *)
(***************************************************************************)
FlowType == {"greeting", "keyword", "reasoning", "crud"}
NodeStatus == {"idle", "active", "completed", "skipped"}
NodeIds == {"ui", "fastapi", "pathway", "llm", "supabase"}
EdgeIds ==
  {"ui-fastapi", "fastapi-pathway", "pathway-llm", "fastapi-supabase",
   "pathway-supabase"}

\* (the dash of each caption is written in ASCII)
FLOW_CAPTIONS ==
  [greeting |-> "Greeting detected - responding directly",
   keyword |-> "Keyword search - querying Supabase directly",
   reasoning |-> "AI reasoning - routed through Pathway RAG",
   crud |-> "Write operation - updating source of truth"]

GREETING_RESPONSES ==
  << "Hi! I can help you analyze incidents, search issues, or explain system behavior.",
     "Hello! I'm your Incident Intelligence assistant. Ask me anything!",
     "Hey there! Ready to help you with incident analysis." >>

FailureResponse ==
  "Error: Failed to get response. Make sure the backend is running."

\* the value of a state or style field that holds null or undefined
Null == -1
Unset == "unset"
\* a step of an animation sequence without an edge
NoEdge == ""

createNodes == [n \in NodeIds |-> "idle"]

createEdges ==
  [e \in EdgeIds |->
     LET colour == CASE e = "fastapi-supabase" -> "#3b82f6"
                     [] e = "pathway-supabase" -> "#a78bfa"
                     [] OTHER -> "#4b5563"
     IN  [stroke |-> colour,
          strokeWidth |-> 2,
          strokeDasharray |-> IF e = "pathway-supabase" THEN "5 5" ELSE Unset,
          opacity |-> Unset,
          animated |-> FALSE,
          markerColor |-> colour,
          labelOpacity |-> Unset]]

FLOW_PATHS ==
  [greeting |->
     [activeNodes |-> <<"ui">>,
      activeEdges |-> <<>>],
   keyword |->
     [activeNodes |-> <<"ui", "fastapi", "supabase">>,
      activeEdges |-> <<"ui-fastapi", "fastapi-supabase">>],
   reasoning |->
     [activeNodes |-> <<"ui", "fastapi", "pathway", "llm", "supabase">>,
      activeEdges |-> <<"ui-fastapi", "fastapi-pathway", "pathway-llm",
                        "pathway-supabase">>],
   crud |->
     [activeNodes |-> <<"ui", "fastapi", "supabase">>,
      activeEdges |-> <<"ui-fastapi", "fastapi-supabase">>]]

\* the reasoning sequence with its last two steps exchanged
sequences_LlmFirst ==
  [greeting |->
     << [node |-> "ui", edge |-> NoEdge] >>,
   keyword |->
     << [node |-> "ui", edge |-> NoEdge],
        [node |-> "fastapi", edge |-> "ui-fastapi"],
        [node |-> "supabase", edge |-> "fastapi-supabase"] >>,
   reasoning |->
     << [node |-> "ui", edge |-> NoEdge],
        [node |-> "fastapi", edge |-> "ui-fastapi"],
        [node |-> "pathway", edge |-> "fastapi-pathway"],
        [node |-> "llm", edge |-> "pathway-llm"],
        [node |-> "supabase", edge |-> "pathway-supabase"] >>,
   crud |->
     << [node |-> "ui", edge |-> NoEdge],
        [node |-> "fastapi", edge |-> "ui-fastapi"],
        [node |-> "supabase", edge |-> "fastapi-supabase"] >>]

\* the animation sequence of each flow type (local table of animateFlow)
sequences ==
  [greeting |->
     << [node |-> "ui", edge |-> NoEdge] >>,
   keyword |->
     << [node |-> "ui", edge |-> NoEdge],
        [node |-> "fastapi", edge |-> "ui-fastapi"],
        [node |-> "supabase", edge |-> "fastapi-supabase"] >>,
   reasoning |->
     << [node |-> "ui", edge |-> NoEdge],
        [node |-> "fastapi", edge |-> "ui-fastapi"],
        [node |-> "pathway", edge |-> "fastapi-pathway"],
        [node |-> "supabase", edge |-> "pathway-supabase"],
        [node |-> "llm", edge |-> "pathway-llm"] >>,
   crud |->
     << [node |-> "ui", edge |-> NoEdge],
        [node |-> "fastapi", edge |-> "ui-fastapi"],
        [node |-> "supabase", edge |-> "fastapi-supabase"] >>]

\* the delays handed to setTimeout, in milliseconds
StepDelayMs == 400
GreetingDelayMs == 600
ContextDelayMs == 400

\* Array.prototype.includes
includes(arr, x) == \E k \in 1..Len(arr) : arr[k] = x

(***************************************************************************)
(* Bounds of the model                                                     *)
(***************************************************************************)
\* animation loops that may be pending when the user submits again
MaxLoops == 2
\* the longest time a submission measures; longer times count as this one
MaxElapsedMs == 800
\* words of a classified text
MaxWords == 3

\* the step of the clock: the finest difference between two delays
TickMs == GreetingDelayMs - StepDelayMs

(***************************************************************************)
(* Texts the user types                                                    *)
(***************************************************************************)
\* "how are you": a greeting that also holds a reasoning cue
TxtHowAreYou == <<"h", "o", "w", " ", "a", "r", "e", " ", "y", "o", "u">>
\* "new incident": matches a write pattern and a keyword pattern
TxtNewIncident == <<"n", "e", "w", " ", "i", "n", "c", "i", "d", "e", "n", "t">>
\* "show incidents": a keyword search
TxtShowIncidents == <<"s", "h", "o", "w", " ", "i", "n", "c", "i", "d", "e", "n", "t", "s">>
\* " why ": a reasoning cue inside white space
TxtWhy == <<" ", "w", "h", "y", " ">>

\* " ": white space only
TxtBlank == <<" ">>

Texts ==
  {<<>>, TxtBlank, TxtHowAreYou, TxtNewIncident, TxtShowIncidents, TxtWhy}

\* the words of the texts handed to the classifier alone
Vocabulary ==
  {<<"H", "o", "w">>,
   <<"r">>,
   <<"u">>,
   <<"n", "e", "w">>,
   <<"i", "n", "c", "i", "d", "e", "n", "t">>,
   <<"s", "h", "o", "w">>}

RECURSIVE JoinWords(_)
\* the words separated by one space
JoinWords(words) ==
  IF words = <<>> THEN <<>>
  ELSE IF Len(words) = 1 THEN words[1]
  ELSE words[1] \o <<" ">> \o JoinWords(Tail(words))

ClassifyTexts ==
  {JoinWords(words) : words \in UNION {[1..n -> Vocabulary] : n \in 1..MaxWords}}

\* " \t\n": white space only, of several kinds
TxtWhiteSpace == <<" ", "\t", "\n">>

\* "show all incidents"
TxtShowAllIncidents ==
  <<"s", "h", "o", "w", " ", "a", "l", "l", " ", "i", "n", "c", "i", "d",
  "e", "n", "t", "s">>
\* "list critical incidents"
TxtListCriticalIncidents ==
  <<"l", "i", "s", "t", " ", "c", "r", "i", "t", "i", "c", "a", "l", " ",
  "i", "n", "c", "i", "d", "e", "n", "t", "s">>
\* "how many issues"
TxtHowManyIssues ==
  <<"h", "o", "w", " ", "m", "a", "n", "y", " ", "i", "s", "s", "u", "e",
  "s">>
\* "mark incident resolved"
TxtMarkIncidentResolved ==
  <<"m", "a", "r", "k", " ", "i", "n", "c", "i", "d", "e", "n", "t", " ",
  "r", "e", "s", "o", "l", "v", "e", "d">>

\* searches and a write as a user words them
ExampleTexts ==
  {TxtShowAllIncidents, TxtListCriticalIncidents, TxtHowManyIssues,
   TxtMarkIncidentResolved}

\* "show me all critical incidents": the search of the example questions
TxtShowMeAllCriticalIncidents ==
  <<"s", "h", "o", "w", " ", "m", "e", " ", "a", "l", "l", " ", "c", "r",
  "i", "t", "i", "c", "a", "l", " ", "i", "n", "c", "i", "d", "e", "n", "t",
  "s">>

\* messages that are a greeting as a whole
GreetingForms ==
  {<<"h", "i">>,
   <<"g", "o", "o", "d", " ", "m", "o", "r", "n", "i", "n", "g">>,
   <<"t", "h", "a", "n", "k", "s">>,
   <<"t", "h", "a", "n", "k">>,
   <<"t", "h", "a", "n", "k", " ", "y", "o", "u">>,
   <<"h", "e", "l", "p">>,
   <<"h", "e", "l", "p", " ", "m", "e">>}

\* what a user adds after a greeting: white space and ! . , ?
Trailers ==
  {<<>>, <<"!">>, <<"?", " ">>, <<" ", ".", ",">>, <<"\t", "!", "!">>}

\* words typed after a greeting
FurtherWords ==
  {<<"t", "h", "e", "r", "e">>,
   <<"m", "e">>,
   <<"y", "o", "u">>}

\* a text in capitals, and with a capital first letter
ToUpperCase(s) ==
  [i \in 1..Len(s) |->
     IF s[i] \in LowerCase
     THEN CHOOSE u \in UpperCase : Canonicalize(u) = s[i] ELSE s[i]]
Capitalize(s) == ToUpperCase(SubSeq(s, 1, 1)) \o SubSeq(s, 2, Len(s))
Casings(s) == {s, ToUpperCase(s), Capitalize(s)}

\* f with a trailer, in the three casings
Decorated(f) == {c \o tr : c \in Casings(f), tr \in Trailers}
\* f followed by the word w, in the three casings, with a trailer
Followed(f, w) ==
  {c \o <<" ">> \o w \o tr : c \in Casings(f), tr \in {<<>>, <<"!">>}}

GreetingTexts ==
  UNION {Decorated(f) : f \in GreetingForms}
    \cup UNION {Followed(f, w) : f \in GreetingForms, w \in FurtherWords}

\* the texts handed to classifyQuery called on its own, the empty text and
\* the white space that handleSubmit never hands to it included
CallTexts ==
  ClassifyTexts \cup Texts \cup {TxtWhiteSpace} \cup ExampleTexts
    \cup GreetingTexts

(***************************************************************************)
(* State of AIFlowPanelContent                                             *)
(***************************************************************************)
VARIABLES
  question,     \* the textarea's value
  response,     \* the text of the response box
  isLoading,
  flowType,     \* Unset for null
  caption,
  currentStep,
  latency,      \* Null or milliseconds
  nodes,        \* status of each node of the diagram
  edges,        \* style of each edge of the diagram
  timers,       \* pending setTimeout continuations, in the order of creation
  pending,      \* fetch calls of sendChatMessage that have not settled
  result,       \* the promise returned by the latest handleSubmit call
  sent,         \* history: requests issued since the latest accepted submit
  outcome,      \* history: how the backend call of the latest submit settled
  doneRun,      \* history: the animateFlow loop that finished last
  mounted,      \* the Dashboard is rendered (App's route is not /flow)
  instance,     \* how many times the Dashboard has been mounted
  incidents,    \* Dashboard: the incident list, newest first
  chatMessages, \* Dashboard: the chat of the assistant
  liveUpdates,  \* Dashboard: the live feed
  dashboard,    \* Dashboard: selectedIncident, isLoading, showCreateModal,
                \* editingIncident, deletingIncident, isSyncing (an incident
                \* is kept by its id)
  form,         \* the IncidentForm that is rendered: loading, error
  ws,           \* apiClient.ws: Null or the index of a socket in sockets
  sockets,      \* every WebSocket created, in the order of creation
  timeouts,     \* pending setTimeout callbacks of Dashboard and APIClient
  calls,        \* backend requests that have not settled; form tells that
                \* the IncidentForm that submitted it is still rendered
  store         \* the incidents the backend holds

dashVars ==
  <<mounted, instance, incidents, chatMessages, liveUpdates, dashboard, form,
    ws, sockets, timeouts, calls, store>>

vars ==
  <<question, response, isLoading, flowType, caption, currentStep, latency,
    nodes, edges, timers, pending, result, sent, outcome, doneRun, dashVars>>

NoRun == [type |-> Unset, clean |-> FALSE, visited |-> <<>>]

\* the replies of the backend (data.response of a 2xx answer)
Replies == {"answer"}
\* the ways sendChatMessage rejects: fetch fails, the status is not 2xx, the
\* body is not JSON
Failures == {"network_error", "not_ok", "bad_json"}

\* an incident as the backend returns it: its id and its data, which is what
\* the create form sent (rev Created) or what the edit form sent (rev Edited)
Incident(id, rev) == [id |-> id, rev |-> rev]
Created == "created"
Edited == "edited"

\* an incident as the backend keeps it: a soft-deleted one stays in the store
Stored(id, rev, deleted) == [id |-> id, rev |-> rev, deleted |-> deleted]

\* useState initial values of IncidentForm
FreshForm == [loading |-> FALSE, error |-> Unset]

\* useState initial values of Dashboard and IncidentForm, the fields of
\* APIClient, and a backend that holds one incident
DashboardInit ==
  /\ mounted = FALSE
  /\ instance = 0
  /\ incidents = <<>>
  /\ chatMessages = <<>>
  /\ liveUpdates = <<>>
  /\ dashboard = [selectedIncident |-> Null, isLoading |-> TRUE,
                  showCreateModal |-> FALSE, editingIncident |-> Null,
                  deletingIncident |-> Null, isSyncing |-> FALSE]
  /\ form = FreshForm
  /\ ws = Null
  /\ sockets = <<>>
  /\ timeouts = <<>>
  /\ calls = <<>>
  /\ store = {Stored(1, Created, FALSE)}

Init ==
  /\ question = <<>>
  /\ response = ""
  /\ isLoading = FALSE
  /\ flowType = Unset
  /\ caption = ""
  /\ currentStep = 0
  /\ latency = Null
  /\ nodes = createNodes
  /\ edges = createEdges
  /\ timers = <<>>
  /\ pending = <<>>
  /\ result = "none"
  /\ sent = 0
  /\ outcome = "none"
  /\ doneRun = NoRun
  /\ DashboardInit

(***************************************************************************)
(* The animator                                                            *)
(***************************************************************************)
\* the nodes off the path are left as they are
activateNode_NoSkip(nds, nodeId, allActiveNodes) ==
  [n \in NodeIds |-> IF n = nodeId THEN "active" ELSE nds[n]]

activateNode(nds, nodeId, allActiveNodes) ==
  [n \in NodeIds |->
     IF n = nodeId THEN "active"
     ELSE IF ~includes(allActiveNodes, n) THEN "skipped"
     ELSE nds[n]]

\* the tints of the write and of the search swapped
activateEdge_SwappedTint(eds, edgeId, type, allActiveEdges) ==
  [e \in EdgeIds |->
     LET isActive == includes(allActiveEdges, e)
         isCurrentEdge == e = edgeId
         isDotted == e = "pathway-supabase"
         isCrud == e = "fastapi-supabase"
         strokeColor ==
           IF isActive \/ isCurrentEdge
           THEN IF type = "keyword" /\ isCrud THEN "#f59e0b"
                ELSE IF type = "crud" /\ isCrud THEN "#3b82f6"
                ELSE "#22c55e"
           ELSE "rgba(75, 85, 99, 0.3)"
     IN  [stroke |-> strokeColor,
          strokeWidth |-> IF isActive \/ isCurrentEdge THEN 3 ELSE 2,
          strokeDasharray |-> IF isDotted THEN "5 5" ELSE Unset,
          opacity |-> IF isActive \/ isCurrentEdge THEN "1" ELSE "0.4",
          animated |-> isCurrentEdge,
          markerColor |-> strokeColor,
          labelOpacity |-> IF isActive \/ isCurrentEdge THEN "1" ELSE "0.4"]]

activateEdge(eds, edgeId, type, allActiveEdges) ==
  [e \in EdgeIds |->
     LET isActive == includes(allActiveEdges, e)
         isCurrentEdge == e = edgeId
         isDotted == e = "pathway-supabase"
         isCrud == e = "fastapi-supabase"
         strokeColor ==
           IF isActive \/ isCurrentEdge
           THEN IF type = "keyword" /\ isCrud THEN "#3b82f6"
                ELSE IF type = "crud" /\ isCrud THEN "#f59e0b"
                ELSE "#22c55e"
           ELSE "rgba(75, 85, 99, 0.3)"
     IN  [stroke |-> strokeColor,
          strokeWidth |-> IF isActive \/ isCurrentEdge THEN 3 ELSE 2,
          strokeDasharray |-> IF isDotted THEN "5 5" ELSE Unset,
          opacity |-> IF isActive \/ isCurrentEdge THEN "1" ELSE "0.4",
          animated |-> isCurrentEdge,
          markerColor |-> strokeColor,
          labelOpacity |-> IF isActive \/ isCurrentEdge THEN "1" ELSE "0.4"]]

\* a finished node put back to idle
completeNode_Idle(nds, nodeId) ==
  [n \in NodeIds |-> IF n = nodeId THEN "idle" ELSE nds[n]]

\* the loop without its completion marking
completeNode_Skipped(nds, nodeId) == nds

completeNode(nds, nodeId) ==
  [n \in NodeIds |-> IF n = nodeId THEN "completed" ELSE nds[n]]

\* one iteration of the loop of animateFlow up to its await: the node, the
\* accumulator and the edges after step idx of the sequence of type
stepNodes(nds, type, idx) ==
  activateNode(nds, sequences[type][idx].node, FLOW_PATHS[type].activeNodes)

stepActivated(type, idx, activatedEdges) ==
  LET step == sequences[type][idx]
  IN  IF step.edge # NoEdge THEN Append(activatedEdges, step.edge)
      ELSE activatedEdges

stepEdges(eds, type, idx, activatedEdges) ==
  LET step == sequences[type][idx]
  IN  IF step.edge # NoEdge
      THEN activateEdge(eds, step.edge, type,
                        stepActivated(type, idx, activatedEdges))
      ELSE eds

IsAnim(t) == t.k = "anim"
AnimTimers == SelectSeq(timers, IsAnim)

\* the timer that fires next: the oldest one among those that are due
Due(i) == timers[i].rem <= 0
FirstDue(i) ==
  /\ i \in 1..Len(timers)
  /\ Due(i)
  /\ \A j \in 1..(i - 1) : ~Due(j)

Remove(seq, i) == SubSeq(seq, 1, i - 1) \o SubSeq(seq, i + 1, Len(seq))

(***************************************************************************)
(* The orchestrator                                                        *)
(***************************************************************************)
\* classifyQuery over the texts of the model
queryTypeOf ==
  [text \in Texts \cup ClassifyTexts \cup {TxtShowMeAllCriticalIncidents} |->
     classifyQuery(text)]

\* a guard that also waits for the running animation
SubmitGuard_WaitsForLoop ==
  ~(trim(question) = <<>> \/ isLoading \/ AnimTimers # <<>>)

\* the guard without its isLoading test
SubmitGuard_IgnoresLoading == ~(trim(question) = <<>>)

\* the early return of handleSubmit, negated
SubmitGuard == ~(trim(question) = <<>> \/ isLoading)

\* handleSubmit without setResponse('') and setLatency(null)
handleSubmit_KeepsRecord ==
  /\ Len(AnimTimers) < MaxLoops
  /\ IF ~SubmitGuard THEN UNCHANGED vars
     ELSE
       LET queryType == queryTypeOf[question]
           loop == [k |-> "anim", type |-> queryType, idx |-> 1,
                    activatedEdges |-> stepActivated(queryType, 1, <<>>),
                    rem |-> StepDelayMs,
                    latest |-> TRUE,
                    clean |-> AnimTimers = <<>>,
                    visited |-> <<sequences[queryType][1]>>]
           wait == [k |-> IF queryType = "greeting" THEN "greeting"
                          ELSE "context",
                    queryType |-> queryType,
                    q |-> question,
                    rem |-> IF queryType = "greeting" THEN GreetingDelayMs
                            ELSE ContextDelayMs,
                    age |-> 0]
           older == [i \in 1..Len(timers) |->
                       IF IsAnim(timers[i])
                       THEN [timers[i] EXCEPT !.latest = FALSE,
                                              !.clean = FALSE]
                       ELSE timers[i]]
       IN  /\ isLoading' = TRUE
           /\ flowType' = queryType
           /\ caption' = FLOW_CAPTIONS[queryType]
           /\ currentStep' = 1
           /\ nodes' = stepNodes(nodes, queryType, 1)
           /\ edges' = stepEdges(edges, queryType, 1, <<>>)
           /\ timers' = older \o <<loop, wait>>
           /\ result' = "pending"
           /\ sent' = 0
           /\ outcome' = "none"
           /\ UNCHANGED <<dashVars, question, response, latency, pending, doneRun>>

\* handleSubmit up to its first await, with the first iteration of the
\* animateFlow loop it starts
handleSubmit ==
  /\ Len(AnimTimers) < MaxLoops
  /\ IF ~SubmitGuard THEN UNCHANGED vars
     ELSE
       LET queryType == queryTypeOf[question]
           loop == [k |-> "anim", type |-> queryType, idx |-> 1,
                    activatedEdges |-> stepActivated(queryType, 1, <<>>),
                    rem |-> StepDelayMs,
                    latest |-> TRUE,
                    clean |-> AnimTimers = <<>>,
                    visited |-> <<sequences[queryType][1]>>]
           wait == [k |-> IF queryType = "greeting" THEN "greeting"
                          ELSE "context",
                    queryType |-> queryType,
                    q |-> question,
                    rem |-> IF queryType = "greeting" THEN GreetingDelayMs
                            ELSE ContextDelayMs,
                    age |-> 0]
           older == [i \in 1..Len(timers) |->
                       IF IsAnim(timers[i])
                       THEN [timers[i] EXCEPT !.latest = FALSE,
                                              !.clean = FALSE]
                       ELSE timers[i]]
       IN  /\ isLoading' = TRUE
           /\ response' = ""
           /\ latency' = Null
           /\ flowType' = queryType
           /\ caption' = FLOW_CAPTIONS[queryType]
           /\ currentStep' = 1
           /\ nodes' = stepNodes(nodes, queryType, 1)
           /\ edges' = stepEdges(edges, queryType, 1, <<>>)
           /\ timers' = older \o <<loop, wait>>
           /\ result' = "pending"
           /\ sent' = 0
           /\ outcome' = "none"
           /\ UNCHANGED <<dashVars, question, pending, doneRun>>

\* onChange of the textarea, which is disabled while isLoading
setQuestion ==
  /\ ~isLoading
  /\ \E text \in Texts : question' = text
  /\ question' # question
  /\ UNCHANGED <<dashVars, response, isLoading, flowType, caption, currentStep,
                 latency, nodes, edges, timers, pending, result, sent, outcome, doneRun>>

\* the rest of an iteration of the animateFlow loop after its await, and the
\* next iteration up to its await
animateFlow ==
  \E i \in 1..Len(timers) :
    /\ FirstDue(i)
    /\ IsAnim(timers[i])
    /\ LET t == timers[i]
           sequence == sequences[t.type]
           completed == completeNode(nodes, sequence[t.idx].node)
       IN  IF t.idx < Len(sequence)
           THEN /\ nodes' = stepNodes(completed, t.type, t.idx + 1)
                /\ edges' = stepEdges(edges, t.type, t.idx + 1,
                                      t.activatedEdges)
                /\ timers' =
                     Remove(timers, i) \o
                     << [t EXCEPT
                           !.idx = t.idx + 1,
                           !.activatedEdges =
                              stepActivated(t.type, t.idx + 1,
                                            t.activatedEdges),
                           !.rem = StepDelayMs,
                           !.visited = Append(t.visited,
                                              sequence[t.idx + 1])] >>
                /\ UNCHANGED doneRun
           ELSE /\ nodes' = completed
                /\ timers' = Remove(timers, i)
                /\ doneRun' = [type |-> t.type, clean |-> t.clean,
                               visited |-> t.visited]
                /\ UNCHANGED edges
    /\ UNCHANGED <<dashVars, question, response, isLoading, flowType, caption,
                   currentStep, latency, pending, result, sent, outcome>>

\* the greeting branch with start taken after the delay
greetingReply_LateStart ==
  \E i \in 1..Len(timers) :
    /\ FirstDue(i)
    /\ timers[i].k = "greeting"
    /\ \E r \in 0..(Len(GREETING_RESPONSES) - 1) :
         response' = GREETING_RESPONSES[r + 1]
    /\ latency' = timers[i].age - GreetingDelayMs
    /\ isLoading' = FALSE
    /\ result' = "fulfilled"
    /\ timers' = Remove(timers, i)
    /\ UNCHANGED <<dashVars, question, flowType, caption, currentStep, nodes, edges,
                   pending, sent, outcome, doneRun>>

\* the greeting branch of handleSubmit after its delay, and the finally block
greetingReply ==
  \E i \in 1..Len(timers) :
    /\ FirstDue(i)
    /\ timers[i].k = "greeting"
    /\ \E r \in 0..(Len(GREETING_RESPONSES) - 1) :
         response' = GREETING_RESPONSES[r + 1]
    /\ latency' = timers[i].age
    /\ isLoading' = FALSE
    /\ result' = "fulfilled"
    /\ timers' = Remove(timers, i)
    /\ UNCHANGED <<dashVars, question, flowType, caption, currentStep, nodes, edges,
                   pending, sent, outcome, doneRun>>

\* the other branch after its delay: step 2 and the call of sendChatMessage
\* up to its fetch
sendChatMessage ==
  \E i \in 1..Len(timers) :
    /\ FirstDue(i)
    /\ timers[i].k = "context"
    /\ pending' = Append(pending,
                         [body |-> [message |-> timers[i].q,
                                    history |-> <<>>],
                          queryType |-> timers[i].queryType,
                          age |-> timers[i].age])
    /\ currentStep' = 2
    /\ sent' = sent + 1
    /\ timers' = Remove(timers, i)
    /\ UNCHANGED <<dashVars, question, response, isLoading, flowType, caption, latency,
                   nodes, edges, result, outcome, doneRun>>

\* step 3 shown for every category
chatResolved_AlwaysStep3 ==
  \E i \in 1..Len(pending), reply \in Replies :
    /\ currentStep' = 3
    /\ response' = reply
    /\ latency' = pending[i].age
    /\ isLoading' = FALSE
    /\ result' = "fulfilled"
    /\ outcome' = "ok"
    /\ pending' = Remove(pending, i)
    /\ UNCHANGED <<dashVars, question, flowType, caption, nodes, edges, timers, sent, doneRun>>

\* sendChatMessage returns the reply; handleSubmit records it; finally
chatResolved ==
  \E i \in 1..Len(pending), reply \in Replies :
    /\ currentStep' = IF pending[i].queryType = "reasoning" THEN 3
                      ELSE currentStep
    /\ response' = reply
    /\ latency' = pending[i].age
    /\ isLoading' = FALSE
    /\ result' = "fulfilled"
    /\ outcome' = "ok"
    /\ pending' = Remove(pending, i)
    /\ UNCHANGED <<dashVars, question, flowType, caption, nodes, edges, timers, sent, doneRun>>

\* handleSubmit without its finally block
chatRejected_NoFinally ==
  \E i \in 1..Len(pending), failure \in Failures :
    /\ response' = FailureResponse
    /\ result' = "fulfilled"
    /\ outcome' = failure
    /\ pending' = Remove(pending, i)
    /\ UNCHANGED <<dashVars, question, isLoading, flowType, caption, currentStep,
                   latency, nodes, edges, timers, sent, doneRun>>

\* handleSubmit without its catch block
chatRejected_NoCatch ==
  \E i \in 1..Len(pending), failure \in Failures :
    /\ isLoading' = FALSE
    /\ result' = "rejected"
    /\ outcome' = failure
    /\ pending' = Remove(pending, i)
    /\ UNCHANGED <<dashVars, question, response, flowType, caption, currentStep,
                   latency, nodes, edges, timers, sent, doneRun>>

\* a failed call is issued once more
chatRejected_Retry ==
  \E i \in 1..Len(pending), failure \in Failures :
    /\ IF sent < 2
       THEN /\ pending' = Append(Remove(pending, i), pending[i])
            /\ sent' = sent + 1
            /\ UNCHANGED <<response, isLoading, result>>
       ELSE /\ pending' = Remove(pending, i)
            /\ response' = FailureResponse
            /\ isLoading' = FALSE
            /\ result' = "fulfilled"
            /\ UNCHANGED sent
    /\ outcome' = failure
    /\ UNCHANGED <<dashVars, question, flowType, caption, currentStep, latency, nodes,
                   edges, timers, doneRun>>

\* sendChatMessage rejects; the catch block of handleSubmit; finally
chatRejected ==
  \E i \in 1..Len(pending), failure \in Failures :
    /\ response' = FailureResponse
    /\ isLoading' = FALSE
    /\ result' = "fulfilled"
    /\ outcome' = failure
    /\ pending' = Remove(pending, i)
    /\ UNCHANGED <<dashVars, question, flowType, caption, currentStep, latency, nodes,
                   edges, timers, sent, doneRun>>

\* Date.now() - start of a submission, TickMs later; the model stops counting
\* at MaxElapsedMs, which stands for every longer time
Older(age) == IF age + TickMs < MaxElapsedMs THEN age + TickMs ELSE MaxElapsedMs

\* TickMs milliseconds pass.  A timer that is due fires before the clock moves
\* on.
Tick ==
  /\ timers # <<>> \/ pending # <<>>
  /\ \A i \in 1..Len(timers) : ~Due(i)
  /\ timers' = [i \in 1..Len(timers) |->
                  IF IsAnim(timers[i])
                  THEN [timers[i] EXCEPT !.rem = @ - TickMs]
                  ELSE [timers[i] EXCEPT !.rem = @ - TickMs,
                                         !.age = Older(@)]]
  /\ pending' = [i \in 1..Len(pending) |->
                   [pending[i] EXCEPT !.age = Older(@)]]
  /\ UNCHANGED <<dashVars, question, response, isLoading, flowType, caption,
                 currentStep, latency, nodes, edges, result, sent, outcome, doneRun>>

Next ==
  \/ setQuestion
  \/ handleSubmit
  \/ animateFlow
  \/ greetingReply
  \/ sendChatMessage
  \/ chatResolved
  \/ chatRejected
  \/ Tick

Spec == Init /\ [][Next]_vars

\* the event loop runs every due timer, time passes, and the awaited call
\* settles
LiveSpec ==
  /\ Spec
  /\ WF_vars(animateFlow)
  /\ WF_vars(greetingReply)
  /\ WF_vars(sendChatMessage)
  /\ WF_vars(chatResolved \/ chatRejected)
  /\ WF_vars(Tick)

\* the classifier alone, applied by handleSubmit to each text of ClassifyTexts
ClassifyInit ==
  /\ question \in ClassifyTexts
  /\ response = ""
  /\ isLoading = FALSE
  /\ flowType = Unset
  /\ caption = ""
  /\ currentStep = 0
  /\ latency = Null
  /\ nodes = createNodes
  /\ edges = createEdges
  /\ timers = <<>>
  /\ pending = <<>>
  /\ result = "none"
  /\ sent = 0
  /\ outcome = "none"
  /\ doneRun = NoRun
  /\ DashboardInit

ClassifySpec == ClassifyInit /\ [][handleSubmit]_vars

\* the panel while the backend is down: every call of sendChatMessage rejects
OfflineNext ==
  \/ setQuestion
  \/ handleSubmit
  \/ animateFlow
  \/ greetingReply
  \/ sendChatMessage
  \/ chatRejected
  \/ Tick

OfflineSpec == Init /\ [][OfflineNext]_vars

\* the panel with "show me all critical incidents" typed in and never edited
ScenarioInit ==
  /\ question = TxtShowMeAllCriticalIncidents
  /\ response = ""
  /\ isLoading = FALSE
  /\ flowType = Unset
  /\ caption = ""
  /\ currentStep = 0
  /\ latency = Null
  /\ nodes = createNodes
  /\ edges = createEdges
  /\ timers = <<>>
  /\ pending = <<>>
  /\ result = "none"
  /\ sent = 0
  /\ outcome = "none"
  /\ doneRun = NoRun
  /\ DashboardInit

ScenarioNext ==
  \/ handleSubmit
  \/ animateFlow
  \/ sendChatMessage
  \/ chatResolved
  \/ chatRejected
  \/ Tick

ScenarioSpec == ScenarioInit /\ [][ScenarioNext]_vars

\* classifyQuery(question) called on its own; the category is kept in
\* flowType, where handleSubmit keeps it
classify ==
  /\ flowType' = classifyQuery(question)
  /\ UNCHANGED <<dashVars, question, response, isLoading, caption, currentStep, latency,
                 nodes, edges, timers, pending, result, sent, outcome, doneRun>>

CallInit ==
  /\ question \in CallTexts
  /\ response = ""
  /\ isLoading = FALSE
  /\ flowType = Unset
  /\ caption = ""
  /\ currentStep = 0
  /\ latency = Null
  /\ nodes = createNodes
  /\ edges = createEdges
  /\ timers = <<>>
  /\ pending = <<>>
  /\ result = "none"
  /\ sent = 0
  /\ outcome = "none"
  /\ doneRun = NoRun
  /\ DashboardInit

CallSpec == CallInit /\ [][classify]_vars

(***************************************************************************)
(* The Dashboard (Dashboard.tsx), IncidentForm and APIClient               *)
(***************************************************************************)
\* delays of the setTimeout calls of APIClient.connectWebSocket and Dashboard
ReconnectDelayMs == 3000
RefreshDelayMs == 5500
\* the longest step of the clock of the Dashboard: half of RefreshDelayMs
DashTickMs == 2750

\* times the Dashboard is mounted
MaxMounts == 2
\* WebSockets created
MaxSockets == 3
\* setTimeout callbacks pending at once
MaxTimeouts == 2
\* backend requests in flight at once
MaxCalls == 2

\* data.type of the messages the backend pushes
EventTypes ==
  {"connected", "incident_created", "incident_updated", "incident_deleted"}

panelVars ==
  <<question, response, isLoading, flowType, caption, currentStep, latency,
    nodes, edges, timers, pending, result, sent, outcome, doneRun>>

\* a setState call of the Dashboard instance inst takes effect only while that
\* instance is the one rendered
Live(inst) == mounted /\ inst = instance

\* a request the backend has not answered yet
Pending == [status |-> "pending"]

\* the ids of the incidents of a set, largest first
RECURSIVE Listing(_)
Listing(set) ==
  IF set = {} THEN <<>>
  ELSE LET top == CHOOSE x \in set : \A y \in set : y.id <= x.id
       IN <<top>> \o Listing(set \ {top})

\* the incidents of the backend that are not deleted
Visible == {Incident(s.id, s.rev) : s \in {t \in store : ~t.deleted}}

\* the live feed the backend serves
Feed == <<"lu-1">>

\* ws.close(): an open socket starts closing, its close event is yet to come;
\* an event.data not yet handed to ws.onmessage is never handed over
close(socks, i) ==
  IF socks[i].readyState = "open"
  THEN [socks EXCEPT ![i].readyState = "closing", ![i].inbox = Unset]
  ELSE socks

\* connectWebSocket(onUpdate): the sockets after the call; this.ws is the last
connectWebSocket(onUpdate) ==
  Append(IF ws # Null THEN close(sockets, ws) ELSE sockets,
         [readyState |-> "open", onUpdate |-> onUpdate, inbox |-> Unset])

\* disconnectWebSocket(): the sockets after the call; this.ws becomes null
disconnectWebSocket ==
  IF ws # Null THEN close(sockets, ws) ELSE sockets

\* loadData() called by the Dashboard instance inst: the two fetches of
\* Promise.all as one request in flight
loadData(inst) ==
  [api |-> "loadData", inst |-> inst, arg |-> Null, reply |-> Pending,
   form |-> FALSE]

\* the Dashboard is rendered: fresh state, then its two effects run
mount ==
  /\ ~mounted
  /\ instance < MaxMounts
  /\ Len(sockets) < MaxSockets
  /\ Len(calls) < MaxCalls
  /\ mounted' = TRUE
  /\ instance' = instance + 1
  /\ incidents' = <<>>
  /\ chatMessages' = <<>>
  /\ liveUpdates' = <<>>
  /\ dashboard' = [selectedIncident |-> Null, isLoading |-> TRUE,
                   showCreateModal |-> FALSE, editingIncident |-> Null,
                   deletingIncident |-> Null, isSyncing |-> FALSE]
  /\ form' = FreshForm
  /\ calls' = Append(calls, loadData(instance'))
  /\ sockets' = connectWebSocket(instance')
  /\ ws' = Len(sockets')
  /\ UNCHANGED <<panelVars, timeouts, store>>

\* the Dashboard is removed: the cleanup of the WebSocket effect runs
unmount ==
  /\ mounted
  /\ mounted' = FALSE
  /\ sockets' = disconnectWebSocket
  /\ ws' = Null
  /\ UNCHANGED <<panelVars, instance, incidents, chatMessages, liveUpdates,
                 dashboard, form, timeouts, calls, store>>

\* the close event of a socket, after close() or after the connection is lost
onclose ==
  \E i \in 1..Len(sockets) :
    /\ sockets[i].readyState \in {"open", "closing"}
    /\ Len(timeouts) < MaxTimeouts
    /\ sockets' = [sockets EXCEPT ![i].readyState = "closed",
                                  ![i].inbox = Unset]
    /\ timeouts' = Append(timeouts, [kind |-> "reconnect",
                                     left |-> ReconnectDelayMs,
                                     inst |-> sockets[i].onUpdate])
    /\ UNCHANGED <<panelVars, mounted, instance, incidents, chatMessages,
                   liveUpdates, dashboard, form, ws, calls, store>>

\* the timer of onclose fires
reconnect ==
  \E k \in 1..Len(timeouts) :
    /\ timeouts[k].kind = "reconnect"
    /\ timeouts[k].left = 0
    /\ Len(sockets) < MaxSockets
    /\ sockets' = connectWebSocket(timeouts[k].inst)
    /\ ws' = Len(sockets')
    /\ timeouts' = Remove(timeouts, k)
    /\ UNCHANGED <<panelVars, mounted, instance, incidents, chatMessages,
                   liveUpdates, dashboard, form, calls, store>>

\* the backend sends an event over a socket: inbox is the event.data that the
\* browser holds until it runs ws.onmessage
push ==
  \E i \in 1..Len(sockets), type \in EventTypes :
    /\ sockets[i].readyState = "open"
    /\ sockets[i].inbox = Unset
    /\ sockets' = [sockets EXCEPT ![i].inbox = type]
    /\ UNCHANGED <<panelVars, mounted, instance, incidents, chatMessages,
                   liveUpdates, dashboard, form, ws, timeouts, calls, store>>

\* ws.onmessage: the event is parsed and handed to onUpdate, the callback of
\* the Dashboard that connected; an incident event makes it schedule a
\* refresh, any other type is only logged. The browser fires no message
\* event on a socket that is not open
onmessage ==
  \E i \in 1..Len(sockets) :
    /\ sockets[i].readyState = "open"
    /\ sockets[i].inbox # Unset
    /\ sockets' = [sockets EXCEPT ![i].inbox = Unset]
    /\ IF sockets[i].inbox \in {"incident_created", "incident_updated",
                                "incident_deleted"}
       THEN /\ Len(timeouts) < MaxTimeouts
            /\ timeouts' = Append(timeouts, [kind |-> "refresh",
                                             left |-> RefreshDelayMs,
                                             inst |-> sockets[i].onUpdate])
       ELSE UNCHANGED timeouts
    /\ UNCHANGED <<panelVars, mounted, instance, incidents, chatMessages,
                   liveUpdates, dashboard, form, ws, calls, store>>

\* a refresh that reloads the data and leaves isSyncing as it is
refresh_KeepsSyncing ==
  \E k \in 1..Len(timeouts) :
    /\ timeouts[k].kind = "refresh"
    /\ timeouts[k].left = 0
    /\ Len(calls) < MaxCalls
    /\ calls' = Append(calls, loadData(timeouts[k].inst))
    /\ timeouts' = Remove(timeouts, k)
    /\ UNCHANGED <<panelVars, mounted, instance, incidents, chatMessages,
                   liveUpdates, dashboard, form, ws, sockets, store>>

\* the timer of a push event fires: loadData(); setIsSyncing(false)
refresh ==
  \E k \in 1..Len(timeouts) :
    /\ timeouts[k].kind = "refresh"
    /\ timeouts[k].left = 0
    /\ Len(calls) < MaxCalls
    /\ calls' = Append(calls, loadData(timeouts[k].inst))
    /\ dashboard' = IF Live(timeouts[k].inst)
                    THEN [dashboard EXCEPT !.isSyncing = FALSE]
                    ELSE dashboard
    /\ timeouts' = Remove(timeouts, k)
    /\ UNCHANGED <<panelVars, mounted, instance, incidents, chatMessages,
                   liveUpdates, form, ws, sockets, store>>

\* the backend answers the two fetches of a loadData call, each with a 2xx
\* answer or a failure; Promise.all drops the incidents when getLiveUpdates
\* throws
serveLoadData ==
  \E i \in 1..Len(calls), incidentsOk \in BOOLEAN, updatesOk \in BOOLEAN :
    /\ calls[i].api = "loadData"
    /\ calls[i].reply = Pending
    /\ calls' = [calls EXCEPT ![i].reply =
                   [status |-> "done",
                    incidentsOk |-> incidentsOk,
                    incidentsData |-> IF incidentsOk /\ updatesOk
                                      THEN Listing(Visible) ELSE <<>>,
                    updatesOk |-> updatesOk,
                    updatesData |-> IF updatesOk THEN Feed ELSE <<>>]]
    /\ UNCHANGED <<panelVars, mounted, instance, incidents, chatMessages,
                   liveUpdates, dashboard, form, ws, sockets, timeouts, store>>

\* APIClient.getIncidents: the list, or [] when the fetch failed
getIncidents(reply) ==
  IF reply.incidentsOk THEN reply.incidentsData ELSE <<>>

\* the requests once the IncidentForm that submitted them is gone
Orphaned(cs) == [k \in 1..Len(cs) |-> [cs[k] EXCEPT !.form = FALSE]]

\* the form and the requests when the incident list becomes list: with an
\* empty list the Dashboard renders EmptyState alone, which removes the form
FormOver(list) == IF list = <<>> THEN FreshForm ELSE form
CallsOver(list) == IF list = <<>> THEN Orphaned(calls) ELSE calls

\* Promise.all of loadData resolves: getLiveUpdates did not throw
loadDataResolved ==
  \E i \in 1..Len(calls) :
    /\ calls[i].api = "loadData"
    /\ calls[i].reply # Pending
    /\ calls[i].reply.updatesOk
    /\ IF Live(calls[i].inst)
       THEN /\ incidents' = getIncidents(calls[i].reply)
            /\ liveUpdates' = calls[i].reply.updatesData
            /\ dashboard' = [dashboard EXCEPT !.isLoading = FALSE]
            /\ form' = FormOver(incidents')
            /\ calls' = Remove(CallsOver(incidents'), i)
       ELSE /\ calls' = Remove(calls, i)
            /\ UNCHANGED <<incidents, liveUpdates, dashboard, form>>
    /\ UNCHANGED <<panelVars, mounted, instance, chatMessages, ws, sockets,
                   timeouts, store>>

\* Promise.all of loadData rejects: getLiveUpdates threw
loadDataRejected ==
  \E i \in 1..Len(calls) :
    /\ calls[i].api = "loadData"
    /\ calls[i].reply # Pending
    /\ ~calls[i].reply.updatesOk
    /\ dashboard' = IF Live(calls[i].inst)
                    THEN [dashboard EXCEPT !.isLoading = FALSE]
                    ELSE dashboard
    /\ calls' = Remove(calls, i)
    /\ UNCHANGED <<panelVars, mounted, instance, incidents, chatMessages,
                   liveUpdates, form, ws, sockets, timeouts, store>>

\* the time until the clock stops next: DashTickMs, or less when a timer is
\* due before
Step ==
  CHOOSE d \in {DashTickMs} \cup {timeouts[k].left : k \in 1..Len(timeouts)} :
    /\ d <= DashTickMs
    /\ \A k \in 1..Len(timeouts) : d <= timeouts[k].left

\* time passes.  A timer that is due fires before the clock moves on, and the
\* clock never moves past the time a timer is due.
DashTick ==
  /\ timeouts # <<>>
  /\ \A k \in 1..Len(timeouts) : timeouts[k].left > 0
  /\ timeouts' = [k \in 1..Len(timeouts) |->
                    [timeouts[k] EXCEPT !.left = @ - Step]]
  /\ UNCHANGED <<panelVars, mounted, instance, incidents, chatMessages,
                 liveUpdates, dashboard, form, ws, sockets, calls, store>>

\* the WebSocket of the Dashboard over mounts and unmounts
SocketNext ==
  \/ mount
  \/ unmount
  \/ onclose
  \/ reconnect
  \/ push
  \/ onmessage
  \/ refresh
  \/ serveLoadData
  \/ loadDataResolved
  \/ loadDataRejected
  \/ DashTick

SocketSpec == Init /\ [][SocketNext]_vars

\* messages sent in the chat of one Dashboard
MaxChats == 3

\* what the user types into the search box of the header or the chat input
Queries == {TxtBlank, TxtWhy}

\* the user messages of the chat, each numbered by its position among them
UserMessages == SelectSeq(chatMessages, LAMBDA m : m.sender = "user")

\* handleSendMessage(message), called by AIChat with the trimmed input when
\* it is not empty: the user message is appended and the request is sent
handleSendMessage ==
  \E message \in {trim(query) : query \in Queries} \ {<<>>} :
    /\ mounted
    /\ Len(UserMessages) < MaxChats
    /\ Len(calls) < MaxCalls
    /\ chatMessages' = Append(chatMessages,
                              [sender |-> "user",
                               id |-> Len(UserMessages) + 1,
                               message |-> message])
    /\ calls' = Append(calls, [api |-> "sendChatMessage", inst |-> instance,
                               arg |-> Len(UserMessages) + 1,
                               reply |-> Pending, form |-> FALSE])
    /\ UNCHANGED <<panelVars, mounted, instance, incidents, liveUpdates,
                   dashboard, form, ws, sockets, timeouts, store>>

\* handleSearch(query), called for every change of the search box
handleSearch ==
  \E query \in Queries :
    /\ mounted
    /\ Len(UserMessages) < MaxChats
    /\ Len(calls) < MaxCalls
    /\ IF trim(query) # <<>>
       THEN /\ chatMessages' = Append(chatMessages,
                                      [sender |-> "user",
                                       id |-> Len(UserMessages) + 1,
                                       message |-> query])
            /\ calls' = Append(calls, [api |-> "sendChatMessage",
                                       inst |-> instance,
                                       arg |-> Len(UserMessages) + 1,
                                       reply |-> Pending, form |-> FALSE])
       ELSE UNCHANGED <<chatMessages, calls>>
    /\ UNCHANGED <<panelVars, mounted, instance, incidents, liveUpdates,
                   dashboard, form, ws, sockets, timeouts, store>>

\* the await of handleSendMessage resolves: the AI response is appended
handleSendMessageResolved ==
  \E i \in 1..Len(calls), reply \in Replies :
    /\ calls[i].api = "sendChatMessage"
    /\ chatMessages' = IF Live(calls[i].inst)
                       THEN Append(chatMessages, [sender |-> "ai",
                                                  id |-> calls[i].arg,
                                                  message |-> reply])
                       ELSE chatMessages
    /\ calls' = Remove(calls, i)
    /\ UNCHANGED <<panelVars, mounted, instance, incidents, liveUpdates,
                   dashboard, form, ws, sockets, timeouts, store>>

\* the await of handleSendMessage rejects: a toast, nothing else
handleSendMessageRejected ==
  \E i \in 1..Len(calls), failure \in Failures :
    /\ calls[i].api = "sendChatMessage"
    /\ calls' = Remove(calls, i)
    /\ UNCHANGED <<panelVars, mounted, instance, incidents, chatMessages,
                   liveUpdates, dashboard, form, ws, sockets, timeouts, store>>

\* the chat of a Dashboard that stays mounted
ChatNext ==
  \/ mount
  \/ serveLoadData
  \/ loadDataResolved
  \/ loadDataRejected
  \/ handleSendMessage
  \/ handleSearch
  \/ handleSendMessageResolved
  \/ handleSendMessageRejected

ChatSpec == Init /\ [][ChatNext]_vars

\* incidents the backend ever holds
MaxIncidents == 2

\* the Dashboard renders the incident list, the chat and the modals: the data
\* is loaded and the list is not empty
Shown == mounted /\ ~dashboard.isLoading /\ incidents # <<>>

\* no modal covers the page
NoModal ==
  /\ dashboard.selectedIncident = Null
  /\ ~dashboard.showCreateModal
  /\ dashboard.editingIncident = Null
  /\ dashboard.deletingIncident = Null

\* the New button of IncidentList
onNewIncident ==
  /\ Shown
  /\ NoModal
  /\ dashboard' = [dashboard EXCEPT !.showCreateModal = TRUE]
  /\ UNCHANGED <<panelVars, mounted, instance, incidents, chatMessages,
                 liveUpdates, form, ws, sockets, timeouts, calls, store>>

\* a card of IncidentList is clicked
onSelectIncident ==
  \E j \in 1..Len(incidents) :
    /\ Shown
    /\ NoModal
    /\ dashboard' = [dashboard EXCEPT !.selectedIncident = incidents[j].id]
    /\ UNCHANGED <<panelVars, mounted, instance, incidents, chatMessages,
                   liveUpdates, form, ws, sockets, timeouts, calls, store>>

\* Edit in IncidentDetailModal
onEdit ==
  /\ Shown
  /\ dashboard.selectedIncident # Null
  /\ dashboard' = [dashboard EXCEPT !.editingIncident = dashboard.selectedIncident,
                                    !.selectedIncident = Null]
  /\ UNCHANGED <<panelVars, mounted, instance, incidents, chatMessages,
                 liveUpdates, form, ws, sockets, timeouts, calls, store>>

\* Delete in IncidentDetailModal
onDelete ==
  /\ Shown
  /\ dashboard.selectedIncident # Null
  /\ dashboard' = [dashboard EXCEPT !.deletingIncident = dashboard.selectedIncident,
                                    !.selectedIncident = Null]
  /\ UNCHANGED <<panelVars, mounted, instance, incidents, chatMessages,
                 liveUpdates, form, ws, sockets, timeouts, calls, store>>

\* the modal that is open is closed: onClose of IncidentDetailModal, onCancel
\* of a form (its X button works while the form is saving) or of the dialog
onCancel ==
  /\ Shown
  /\ \/ /\ dashboard.selectedIncident # Null
        /\ dashboard' = [dashboard EXCEPT !.selectedIncident = Null]
        /\ UNCHANGED <<form, calls>>
     \/ /\ dashboard.showCreateModal
        /\ dashboard' = [dashboard EXCEPT !.showCreateModal = FALSE]
        /\ form' = FreshForm
        /\ calls' = Orphaned(calls)
     \/ /\ dashboard.editingIncident # Null
        /\ dashboard' = [dashboard EXCEPT !.editingIncident = Null]
        /\ form' = FreshForm
        /\ calls' = Orphaned(calls)
     \/ /\ dashboard.deletingIncident # Null
        /\ dashboard' = [dashboard EXCEPT !.deletingIncident = Null]
        /\ UNCHANGED <<form, calls>>
  /\ UNCHANGED <<panelVars, mounted, instance, incidents, chatMessages,
                 liveUpdates, ws, sockets, timeouts, store>>

\* the create form is submitted: IncidentForm.handleSubmit up to its await,
\* handleCreateIncident up to its await
handleCreateIncident ==
  /\ Shown
  /\ dashboard.showCreateModal
  /\ ~form.loading
  /\ Len(calls) < MaxCalls
  /\ form' = [loading |-> TRUE, error |-> Unset]
  /\ calls' = Append(calls, [api |-> "createIncident", inst |-> instance,
                             arg |-> Null, reply |-> Pending, form |-> TRUE])
  /\ UNCHANGED <<panelVars, mounted, instance, incidents, chatMessages,
                 liveUpdates, dashboard, ws, sockets, timeouts, store>>

\* the edit form is submitted: IncidentForm.handleSubmit up to its await,
\* handleUpdateIncident up to its await
handleUpdateIncident ==
  /\ Shown
  /\ dashboard.editingIncident # Null
  /\ ~form.loading
  /\ Len(calls) < MaxCalls
  /\ form' = [loading |-> TRUE, error |-> Unset]
  /\ calls' = Append(calls, [api |-> "updateIncident", inst |-> instance,
                             arg |-> dashboard.editingIncident,
                             reply |-> Pending, form |-> TRUE])
  /\ UNCHANGED <<panelVars, mounted, instance, incidents, chatMessages,
                 liveUpdates, dashboard, ws, sockets, timeouts, store>>

\* the delete dialog is confirmed: handleDeleteIncident up to its await
handleDeleteIncident ==
  /\ Shown
  /\ dashboard.deletingIncident # Null
  /\ Len(calls) < MaxCalls
  /\ calls' = Append(calls, [api |-> "deleteIncident", inst |-> instance,
                             arg |-> dashboard.deletingIncident,
                             reply |-> Pending, form |-> FALSE])
  /\ UNCHANGED <<panelVars, mounted, instance, incidents, chatMessages,
                 liveUpdates, dashboard, form, ws, sockets, timeouts, store>>

\* the ways createIncident and updateIncident reject: fetch or response.json()
\* throws an error of its own, or the status is not 2xx and the client throws
WriteFailures == {"network_error", "not_ok"}

\* the backend answers a request that writes: it creates, updates or
\* soft-deletes the incident and answers 2xx, or it fails
serveIncident ==
  \E i \in 1..Len(calls) :
    /\ calls[i].api \in {"createIncident", "updateIncident", "deleteIncident"}
    /\ calls[i].reply = Pending
    /\ \/ /\ calls[i].api = "createIncident"
          /\ Cardinality(store) < MaxIncidents
          /\ store' = store \cup {Stored(Cardinality(store) + 1, Created, FALSE)}
          /\ calls' = [calls EXCEPT ![i].reply =
                         [status |-> "ok",
                          incident |-> Incident(Cardinality(store) + 1, Created)]]
       \/ \E s \in store :
            /\ calls[i].api = "updateIncident"
            /\ s.id = calls[i].arg
            /\ ~s.deleted
            /\ store' = (store \ {s}) \cup {Stored(s.id, Edited, FALSE)}
            /\ calls' = [calls EXCEPT ![i].reply =
                           [status |-> "ok",
                            incident |-> Incident(s.id, Edited)]]
       \/ \E s \in store :
            /\ calls[i].api = "deleteIncident"
            /\ s.id = calls[i].arg
            /\ ~s.deleted
            /\ store' = (store \ {s}) \cup {Stored(s.id, s.rev, TRUE)}
            /\ calls' = [calls EXCEPT ![i].reply =
                           [status |-> "ok", incident |-> Incident(s.id, s.rev)]]
       \/ \E failure \in WriteFailures :
            /\ calls' = [calls EXCEPT ![i].reply =
                           [status |-> "failed", failure |-> failure]]
            /\ UNCHANGED store
    /\ UNCHANGED <<panelVars, mounted, instance, incidents, chatMessages,
                   liveUpdates, dashboard, form, ws, sockets, timeouts>>

\* the incident handleCreateIncident puts into the list
Optimistic(incident) ==
  [id |-> incident.id, rev |-> incident.rev, syncing |-> TRUE]

\* err.message of what createIncident or updateIncident throws
ErrorMessage(api, failure) ==
  IF failure # "not_ok" THEN failure
  ELSE IF api = "createIncident" THEN "Failed to create incident"
  ELSE "Failed to update incident"

\* the await of handleCreateIncident resolves; the form it closes is gone
\* before the finally of IncidentForm.handleSubmit runs
handleCreateIncidentResolved ==
  \E i \in 1..Len(calls) :
    /\ calls[i].api = "createIncident"
    /\ calls[i].reply # Pending
    /\ calls[i].reply.status = "ok"
    /\ Len(timeouts) < MaxTimeouts
    /\ IF Live(calls[i].inst)
       THEN /\ incidents' = <<Optimistic(calls[i].reply.incident)>> \o incidents
            /\ dashboard' = [dashboard EXCEPT !.showCreateModal = FALSE,
                                              !.isSyncing = TRUE]
            /\ form' = IF dashboard.showCreateModal THEN FreshForm ELSE form
            /\ calls' = Remove(IF dashboard.showCreateModal
                               THEN Orphaned(calls) ELSE calls, i)
       ELSE /\ calls' = Remove(calls, i)
            /\ UNCHANGED <<incidents, dashboard, form>>
    /\ timeouts' = Append(timeouts, [kind |-> "synced",
                                     left |-> RefreshDelayMs,
                                     inst |-> calls[i].inst])
    /\ UNCHANGED <<panelVars, mounted, instance, chatMessages, liveUpdates,
                   ws, sockets, store>>

\* handleCreateIncident with a catch that does not throw the error again
handleCreateIncidentRejected_Swallowed ==
  \E i \in 1..Len(calls) :
    /\ calls[i].api = "createIncident"
    /\ calls[i].reply # Pending
    /\ calls[i].reply.status = "failed"
    /\ form' = IF calls[i].form THEN FreshForm ELSE form
    /\ calls' = Remove(calls, i)
    /\ UNCHANGED <<panelVars, mounted, instance, incidents, chatMessages,
                   liveUpdates, dashboard, ws, sockets, timeouts, store>>

\* the await of handleCreateIncident rejects: the error is thrown again and
\* IncidentForm.handleSubmit catches it
handleCreateIncidentRejected ==
  \E i \in 1..Len(calls) :
    /\ calls[i].api = "createIncident"
    /\ calls[i].reply # Pending
    /\ calls[i].reply.status = "failed"
    /\ form' = IF calls[i].form
               THEN [loading |-> FALSE,
                     error |-> ErrorMessage(calls[i].api,
                                            calls[i].reply.failure)]
               ELSE form
    /\ calls' = Remove(calls, i)
    /\ UNCHANGED <<panelVars, mounted, instance, incidents, chatMessages,
                   liveUpdates, dashboard, ws, sockets, timeouts, store>>

\* the await of handleUpdateIncident resolves
handleUpdateIncidentResolved ==
  \E i \in 1..Len(calls) :
    /\ calls[i].api = "updateIncident"
    /\ calls[i].reply # Pending
    /\ calls[i].reply.status = "ok"
    /\ IF Live(calls[i].inst)
       THEN /\ incidents' =
                 [j \in 1..Len(incidents) |->
                    IF incidents[j].id = calls[i].reply.incident.id
                    THEN calls[i].reply.incident
                    ELSE incidents[j]]
            /\ dashboard' = [dashboard EXCEPT !.editingIncident = Null]
            /\ form' = IF dashboard.editingIncident # Null
                       THEN FreshForm ELSE form
            /\ calls' = Append(Remove(IF dashboard.editingIncident # Null
                                      THEN Orphaned(calls) ELSE calls, i),
                               loadData(calls[i].inst))
       ELSE /\ calls' = Append(Remove(calls, i), loadData(calls[i].inst))
            /\ UNCHANGED <<incidents, dashboard, form>>
    /\ UNCHANGED <<panelVars, mounted, instance, chatMessages, liveUpdates,
                   ws, sockets, timeouts, store>>

\* the await of handleUpdateIncident rejects: the error is thrown again and
\* IncidentForm.handleSubmit catches it
handleUpdateIncidentRejected ==
  \E i \in 1..Len(calls) :
    /\ calls[i].api = "updateIncident"
    /\ calls[i].reply # Pending
    /\ calls[i].reply.status = "failed"
    /\ form' = IF calls[i].form
               THEN [loading |-> FALSE,
                     error |-> ErrorMessage(calls[i].api,
                                            calls[i].reply.failure)]
               ELSE form
    /\ calls' = Remove(calls, i)
    /\ UNCHANGED <<panelVars, mounted, instance, incidents, chatMessages,
                   liveUpdates, dashboard, ws, sockets, timeouts, store>>

\* the await of handleDeleteIncident resolves
handleDeleteIncidentResolved ==
  \E i \in 1..Len(calls) :
    /\ calls[i].api = "deleteIncident"
    /\ calls[i].reply # Pending
    /\ calls[i].reply.status = "ok"
    /\ IF Live(calls[i].inst)
       THEN /\ incidents' = SelectSeq(incidents,
                                      LAMBDA inc : inc.id # calls[i].arg)
            /\ dashboard' = [dashboard EXCEPT !.deletingIncident = Null]
            /\ form' = FormOver(incidents')
            /\ calls' = Append(Remove(CallsOver(incidents'), i),
                               loadData(calls[i].inst))
       ELSE /\ calls' = Append(Remove(calls, i), loadData(calls[i].inst))
            /\ UNCHANGED <<incidents, dashboard, form>>
    /\ UNCHANGED <<panelVars, mounted, instance, chatMessages, liveUpdates,
                   ws, sockets, timeouts, store>>

\* the await of handleDeleteIncident rejects: a toast, nothing else
handleDeleteIncidentRejected ==
  \E i \in 1..Len(calls) :
    /\ calls[i].api = "deleteIncident"
    /\ calls[i].reply # Pending
    /\ calls[i].reply.status = "failed"
    /\ calls' = Remove(calls, i)
    /\ UNCHANGED <<panelVars, mounted, instance, incidents, chatMessages,
                   liveUpdates, dashboard, form, ws, sockets, timeouts, store>>

\* the timer of handleCreateIncident fires: loadData(); setIsSyncing(false)
synced ==
  \E k \in 1..Len(timeouts) :
    /\ timeouts[k].kind = "synced"
    /\ timeouts[k].left = 0
    /\ Len(calls) < MaxCalls
    /\ calls' = Append(calls, loadData(timeouts[k].inst))
    /\ dashboard' = IF Live(timeouts[k].inst)
                    THEN [dashboard EXCEPT !.isSyncing = FALSE]
                    ELSE dashboard
    /\ timeouts' = Remove(timeouts, k)
    /\ UNCHANGED <<panelVars, mounted, instance, incidents, chatMessages,
                   liveUpdates, form, ws, sockets, store>>

\* a Dashboard that stays mounted: incidents are created, push events arrive
\* and the timers refresh the data
SyncNext ==
  \/ mount
  \/ serveLoadData
  \/ loadDataResolved
  \/ loadDataRejected
  \/ push
  \/ onmessage
  \/ refresh
  \/ onNewIncident
  \/ handleCreateIncident
  \/ serveIncident
  \/ handleCreateIncidentResolved
  \/ handleCreateIncidentRejected
  \/ synced
  \/ DashTick

\* the backend answers every request, a settled promise runs its continuation,
\* time passes, and a timer that is due runs its callback
SyncFairness ==
  /\ WF_vars(serveLoadData)
  /\ WF_vars(loadDataResolved)
  /\ WF_vars(loadDataRejected)
  /\ WF_vars(serveIncident)
  /\ WF_vars(handleCreateIncidentResolved)
  /\ WF_vars(handleCreateIncidentRejected)
  /\ WF_vars(DashTick)
  /\ SF_vars(refresh)
  /\ SF_vars(synced)

SyncSpec == Init /\ [][SyncNext]_vars /\ SyncFairness

\* the forms of a Dashboard that stays mounted, over a span shorter than
\* RefreshDelayMs (no timer fires): incidents are created and edited through
\* IncidentForm, each form is submitted and stays open until its request
\* settles
FormNext ==
  \/ mount
  \/ serveLoadData
  \/ loadDataResolved
  \/ loadDataRejected
  \/ onNewIncident
  \/ onSelectIncident
  \/ onEdit
  \/ handleCreateIncident
  \/ handleUpdateIncident
  \/ serveIncident
  \/ handleCreateIncidentResolved
  \/ handleCreateIncidentRejected
  \/ handleUpdateIncidentResolved
  \/ handleUpdateIncidentRejected

FormSpec == Init /\ [][FormNext]_vars

\* the modals of a Dashboard that stays mounted: an incident is opened,
\* deleted after the confirmation, and any modal can be closed
ModalNext ==
  \/ mount
  \/ serveLoadData
  \/ loadDataResolved
  \/ loadDataRejected
  \/ onNewIncident
  \/ onSelectIncident
  \/ onEdit
  \/ onDelete
  \/ onCancel
  \/ handleDeleteIncident
  \/ serveIncident
  \/ handleDeleteIncidentResolved
  \/ handleDeleteIncidentRejected

ModalSpec == Init /\ [][ModalNext]_vars

TypeOK ==
  /\ question \in Seq(WordChar \cup WhiteSpace \cup {"!", ".", ",", "?", "'"})
  /\ isLoading \in BOOLEAN
  /\ flowType \in FlowType \cup {Unset}
  /\ currentStep \in 0..3
  /\ latency \in {Null} \cup 0..MaxElapsedMs
  /\ nodes \in [NodeIds -> NodeStatus]
  /\ DOMAIN edges = EdgeIds
  /\ result \in {"none", "pending", "fulfilled", "rejected"}
  /\ sent \in 0..1
  /\ outcome \in {"none", "ok"} \cup Failures

(***************************************************************************)
(* Properties                                                              *)
(***************************************************************************)
\* C1: classifyQuery tries greeting, then crud, then keyword, then reasoning
\* on the trimmed text and returns the first family with a matching pattern,
\* whatever lower families match as well.  (The textarea is disabled while
\* isLoading, so question is the submitted text.)
C1_FamilyPriority ==
  isLoading =>
    LET msg == trim(question)
        isGreeting == some(GREETING_PATTERNS, msg)
        isCrud == some(CRUD_PATTERNS, msg)
        isKeyword == some(KEYWORD_PATTERNS, msg)
        isReasoning == some(REASONING_PATTERNS, msg)
    IN  /\ isGreeting => flowType = "greeting"
        /\ ~isGreeting /\ isCrud => flowType = "crud"
        /\ ~isGreeting /\ ~isCrud /\ isKeyword => flowType = "keyword"
        /\ ~isGreeting /\ ~isCrud /\ ~isKeyword /\ isReasoning =>
             flowType = "reasoning"

\* a text that matches a crud, a keyword and a reasoning pattern was
\* classified crud
C1_Witness ==
  /\ isLoading
  /\ flowType = "crud"
  /\ some(KEYWORD_PATTERNS, trim(question))
  /\ some(REASONING_PATTERNS, trim(question))

\* the statuses a finished run of a flow type leaves: its path completed, the
\* other nodes skipped
FinalNodes(type) ==
  [n \in NodeIds |->
     IF includes(FLOW_PATHS[type].activeNodes, n) THEN "completed"
     ELSE "skipped"]

\* C2: when an animateFlow run that no other run overlapped has completed,
\* exactly the nodes of FLOW_PATHS[category].activeNodes are 'completed' and
\* all others 'skipped', whatever the statuses were before the run.
C2_RunCompletes ==
  (doneRun.type # Unset /\ doneRun.clean /\ AnimTimers = <<>>) =>
    /\ nodes = FinalNodes(doneRun.type)
    /\ \A n \in NodeIds : nodes[n] \notin {"idle", "active"}

\* a greeting run completed alone on a diagram that an earlier reasoning run
\* had left with every node completed
C2_Witness ==
  /\ doneRun.type = "greeting"
  /\ doneRun.clean
  /\ AnimTimers = <<>>
  /\ edges["pathway-llm"].stroke = "#22c55e"
  /\ nodes["llm"] = "skipped"

\* the continuations of handleSubmit that are waiting: on a timer or on the
\* backend
InFlight == Len(timers) - Len(AnimTimers) + Len(pending)

\* C3: handleSubmit does nothing when the trimmed question is empty or while
\* isLoading, so at most one submission is between setIsLoading(true) and the
\* finally block.
C3_SingleSubmission ==
  /\ [](InFlight <= 1 /\ (isLoading <=> InFlight = 1))
  /\ [][InFlight' > InFlight => (~isLoading /\ trim(question) # <<>>)]_vars

\* a submission waits for the backend
C3_Witness == isLoading /\ Len(pending) = 1 /\ InFlight = 1

\* C4: every accepted submission eventually sets isLoading back to false,
\* whether the greeting delay elapses, the backend call resolves or it rejects.
C4_LoadingEnds == isLoading ~> ~isLoading

\* the loading flag was cleared after a rejected backend call
C4_Witness == ~isLoading /\ outcome \in Failures /\ currentStep = 2

\* C5: when the backend call rejects, the response is the fixed failure string,
\* isLoading is false and handleSubmit does not reject.
C5_RejectHandled ==
  outcome \in Failures =>
    /\ response =
         "Error: Failed to get response. Make sure the backend is running."
    /\ ~isLoading
    /\ result = "fulfilled"

\* a call failed on a non-2xx status
C5_Witness == outcome = "not_ok" /\ flowType = "reasoning" /\ ~isLoading

\* C6: a greeting submission issues no backend request, records one of the
\* three strings of GREETING_RESPONSES and a latency of at least 600 ms.
C6_GreetingLocal ==
  flowType = "greeting" =>
    /\ sent = 0
    /\ pending = <<>>
    /\ ~isLoading =>
         /\ response \in
              {"Hi! I can help you analyze incidents, search issues, or explain system behavior.",
               "Hello! I'm your Incident Intelligence assistant. Ask me anything!",
               "Hey there! Ready to help you with incident analysis."}
         /\ latency >= 600

\* a greeting was answered with the third string
C6_Witness ==
  /\ flowType = "greeting"
  /\ ~isLoading
  /\ response = "Hey there! Ready to help you with incident analysis."
  /\ latency # Null

\* C7: a keyword, crud or reasoning submission issues exactly one backend
\* request, which carries the question text, and never issues it again.
C7_OneRequest ==
  /\ [](flowType \in {"keyword", "crud", "reasoning"} =>
          /\ sent <= 1
          /\ ~isLoading => sent = 1)
  /\ [][sent' > sent =>
          /\ Len(pending') = Len(pending) + 1
          /\ pending'[Len(pending')].body.message = question]_vars

\* the one request of a crud submission failed and the submission is over
C7_Witness ==
  /\ flowType = "crud"
  /\ ~isLoading
  /\ sent = 1
  /\ outcome \in Failures

\* C8: a new run first resets the diagram: on an accepted submit all nodes
\* return to 'idle' and the edges to their initial styling before the first
\* step of the run marks a node.
C8_ResetFirst ==
  [][(~isLoading /\ isLoading') =>
       /\ nodes' = activateNode(createNodes, "ui",
                                FLOW_PATHS[flowType'].activeNodes)
       /\ edges' = createEdges]_vars

\* a step of the loop of a run that is not the most recent one
StaleStep ==
  /\ animateFlow
  /\ \E i \in 1..Len(timers) :
       FirstDue(i) /\ IsAnim(timers[i]) /\ ~timers[i].latest

\* C9: each submission yields one clean, isolated animation: when all loops
\* have finished the statuses are those of the most recent submission's
\* category, and no step of an earlier run changes nodes or edges once a newer
\* run has started.
C9_IsolatedRuns ==
  /\ []((AnimTimers = <<>> /\ flowType # Unset) => nodes = FinalNodes(flowType))
  /\ [][StaleStep => UNCHANGED <<nodes, edges>>]_vars

\* the step sequences as the specification lists them
ClaimedSteps ==
  [greeting |-> << <<"ui", "">> >>,
   keyword |-> << <<"ui", "">>, <<"fastapi", "ui-fastapi">>,
                  <<"supabase", "fastapi-supabase">> >>,
   crud |-> << <<"ui", "">>, <<"fastapi", "ui-fastapi">>,
               <<"supabase", "fastapi-supabase">> >>,
   reasoning |-> << <<"ui", "">>, <<"fastapi", "ui-fastapi">>,
                    <<"pathway", "fastapi-pathway">>,
                    <<"supabase", "pathway-supabase">>,
                    <<"llm", "pathway-llm">> >>]

Pairs(visited) == [i \in 1..Len(visited) |-> <<visited[i].node, visited[i].edge>>]
Elements(seq) == {seq[i] : i \in 1..Len(seq)}

\* C10: the nodes of a run become active in the order of the category's step
\* sequence, each with its edge, and the nodes and edges the sequence visits
\* are those of FLOW_PATHS[category].
C10_StepOrder ==
  /\ \A i \in 1..Len(timers) :
       IsAnim(timers[i]) =>
         LET t == timers[i]
             claimed == ClaimedSteps[t.type]
         IN  /\ t.idx <= Len(claimed)
             /\ Pairs(t.visited) = SubSeq(claimed, 1, t.idx)
             /\ t.clean =>
                  /\ nodes[claimed[t.idx][1]] = "active"
                  /\ \A j \in 1..(t.idx - 1) :
                       nodes[claimed[j][1]] = "completed"
                  /\ \A j \in (t.idx + 1)..Len(claimed) :
                       nodes[claimed[j][1]] # "active"
  /\ doneRun.type # Unset =>
       /\ Pairs(doneRun.visited) = ClaimedSteps[doneRun.type]
       /\ {p[1] : p \in Elements(Pairs(doneRun.visited))} =
            Elements(FLOW_PATHS[doneRun.type].activeNodes)
       /\ {p[2] : p \in Elements(Pairs(doneRun.visited))} \ {""} =
            Elements(FLOW_PATHS[doneRun.type].activeEdges)

\* a reasoning run on its fourth step: supabase is active before llm
C10_Witness ==
  \E i \in 1..Len(timers) :
    /\ IsAnim(timers[i])
    /\ timers[i].type = "reasoning"
    /\ timers[i].clean
    /\ timers[i].idx = 4
    /\ nodes["supabase"] = "active"
    /\ nodes["llm"] = "idle"

\* C11: a trimmed text that no pattern of any family matches is classified
\* reasoning; the empty text and a text of white space only are such texts
\* and get the default as well.  (Under CallSpec flowType is set by classify
\* alone, so flowType # Unset says that classifyQuery(question) returned.)
C11_DefaultReasoning ==
  flowType # Unset =>
    LET msg == trim(question)
    IN  /\ (/\ ~some(GREETING_PATTERNS, msg)
            /\ ~some(CRUD_PATTERNS, msg)
            /\ ~some(KEYWORD_PATTERNS, msg)
            /\ ~some(REASONING_PATTERNS, msg)) => flowType = "reasoning"
        /\ msg = <<>> => flowType = "reasoning"

\* classifyQuery returned reasoning for a text of white space only
C11_Witness ==
  /\ question = TxtWhiteSpace
  /\ trim(question) = <<>>
  /\ flowType = "reasoning"

\* white space put before and after a text
Paddings == {<<>>, <<" ">>, <<"\t", "\n">>}

\* C12: the category classifyQuery returns depends on the trimmed text only:
\* the same text with white space added before it, after it or on both sides
\* gets the category that the call recorded in flowType returned.  (The
\* patterns carry the flag i alone, so test keeps no lastIndex between calls,
\* and classify changes nothing but the category it records.)
C12_TrimmedTextOnly ==
  flowType # Unset =>
    \A before \in Paddings, after \in Paddings :
      classifyQuery(before \o question \o after) = flowType

\* a greeting, whose patterns are anchored at both ends, is still a greeting
\* inside white space
C12_Witness ==
  /\ flowType = "greeting"
  /\ question \in ClassifyTexts
  /\ classifyQuery(<<" ">> \o question \o <<"\t", "\n">>) = "greeting"

\* C13: classifyQuery returns keyword for "show all incidents", "list
\* critical incidents" and "how many issues", and crud, not keyword, for
\* "mark incident resolved".
C13_SearchExamples ==
  flowType # Unset =>
    /\ question \in {TxtShowAllIncidents, TxtListCriticalIncidents,
                      TxtHowManyIssues} => flowType = "keyword"
    /\ question = TxtMarkIncidentResolved => flowType = "crud"

\* C14: a message that is a greeting as a whole is classified greeting in
\* lower case, in capitals and capitalised, and with any run of white space
\* and ! . , ? after it; a greeting followed by a further word is not
\* classified greeting, unless the two together are a greeting as a whole
\* ("help me", "thank you").
C14_WholeMessageGreeting ==
  flowType # Unset =>
    \A f \in GreetingForms :
      /\ question \in Decorated(f) => flowType = "greeting"
      /\ \A w \in FurtherWords :
           /\ question \in Followed(f, w)
           /\ f \o <<" ">> \o w \notin GreetingForms
           => flowType # "greeting"

\* C14 as stated: a greeting followed by any further word is never classified
\* greeting
C14_FollowedNeverGreeting ==
  flowType # Unset =>
    \A f \in GreetingForms :
      /\ question \in Decorated(f) => flowType = "greeting"
      /\ \A w \in FurtherWords :
           question \in Followed(f, w) => flowType # "greeting"

\* "GOOD MORNING" with a trailer was classified greeting, and "Hi there!" is
\* not one
C14_Witness ==
  /\ flowType = "greeting"
  /\ classifyQuery(<<"H", "i", " ", "t", "h", "e", "r", "e", "!">>) = "reasoning"
  /\ question = ToUpperCase(<<"g", "o", "o", "d", " ", "m", "o", "r", "n", "i", "n", "g">>) \o <<"\t", "!", "!">>

\* C15: "show me all critical incidents" submitted is classified keyword, its
\* run activates ui, fastapi and supabase in this order, and the run ends
\* with ui, fastapi and supabase completed and pathway and llm skipped.
\* (Under ScenarioSpec every run is one of this text; the run that no other
\* run overlaps is looked at.)
C15_SearchScenario ==
  question = TxtShowMeAllCriticalIncidents =>
    /\ flowType # Unset => flowType = "keyword"
    /\ doneRun.type # Unset /\ doneRun.clean /\ AnimTimers = <<>> =>
         /\ [i \in 1..Len(doneRun.visited) |-> doneRun.visited[i].node]
              = <<"ui", "fastapi", "supabase">>
         /\ nodes = [ui |-> "completed", fastapi |-> "completed",
                     supabase |-> "completed", pathway |-> "skipped",
                     llm |-> "skipped"]

\* C16: once the promise of handleSubmit has settled, latency holds the time
\* since the submit, whether the submission was a greeting, the backend
\* answered or the backend call failed.
C16_LatencyRecorded ==
  result = "fulfilled" => latency # Null

\* an accepted submit: isLoading goes from false to true
Accepted == ~isLoading /\ isLoading'

\* the step counter in a state of a submission
StepCounterOK ==
  flowType # Unset =>
    \* a greeting stays at step 1
    /\ flowType = "greeting" => currentStep = 1
    \* during the fixed delay of a non-greeting the counter is 1
    /\ \A i \in 1..Len(timers) :
         timers[i].k = "context" =>
           /\ currentStep = 1
           /\ timers[i].age < ContextDelayMs <=> timers[i].rem > 0
    \* after the delay it is 2 for as long as the backend has not answered
    /\ \A i \in 1..Len(pending) :
         currentStep = 2 /\ pending[i].age >= ContextDelayMs
    \* and it is 2 or more once the call has settled
    /\ flowType # "greeting" /\ ~isLoading => currentStep >= 2
    \* 3 needs a reasoning run whose call resolved
    /\ currentStep = 3 => flowType = "reasoning" /\ outcome = "ok"
    /\ flowType = "reasoning" /\ outcome = "ok" => currentStep = 3
    /\ flowType \in {"keyword", "crud"} => currentStep <= 2
    /\ outcome \in Failures => currentStep <= 2

\* C17: the step counter is 1 at an accepted submit; for a non-greeting it is
\* 1 during the 400 ms delay and 2 from the end of the delay on, whether the
\* backend answers early, late or with a failure; it is 3 exactly when a
\* reasoning run's backend call has resolved; it stays 1 for a greeting and at
\* most 2 for keyword, crud and a failed call; and between two accepted
\* submits it never decreases.
C17_StepCounter ==
  /\ []StepCounterOK
  /\ [][/\ Accepted => currentStep' = 1
        /\ ~Accepted => currentStep' >= currentStep]_vars

\* a reasoning run reached step 3 with an answer, not before the delay ended
C17_Witness ==
  /\ currentStep = 3
  /\ flowType = "reasoning"
  /\ outcome = "ok"
  /\ latency >= ContextDelayMs

\* the step in which the backend call of the submission rejects
Rejects == outcome \notin Failures /\ outcome' \in Failures

\* the last step of the loop timers[i], whose submission was not a greeting
\* and has had its backend call rejected.  (Under OfflineSpec every call
\* rejects: the call of the latest submission has settled when outcome says
\* so, that of an earlier submission settled before the next was accepted.)
RejectedLoopEnds(i) ==
  /\ FirstDue(i)
  /\ IsAnim(timers[i])
  /\ Len(AnimTimers') < Len(AnimTimers)
  /\ timers[i].type # "greeting"
  /\ timers[i].latest => outcome \in Failures

\* C18: the step that handles a rejected backend call changes no node, no
\* edge and no pending step of a loop, and the loop of the submission whose
\* call rejected goes through every step of its sequence and ends with every
\* node of the category's path completed.
C18_FailureLeavesAnimator ==
  [][/\ Rejects => UNCHANGED <<nodes, edges, timers>>
     /\ \A i \in 1..Len(timers) :
          RejectedLoopEnds(i) =>
            LET claimed == ClaimedSteps[timers[i].type]
            IN  /\ Pairs(timers[i].visited) = claimed
                /\ \A j \in 1..Len(claimed) :
                     nodes'[claimed[j][1]] = "completed"]_vars

\* C19: the submit control looks at isLoading alone.  Whenever no response
\* is loading and the text is not blank a submission is accepted, also while
\* loops of earlier submissions have steps pending, and the accepted
\* submission leaves every pending step of those loops scheduled, so that
\* they fire during the new run.  (Len(AnimTimers) < MaxLoops is the bound of
\* the model on overlapping loops; C19_Witness is a state in which a stale
\* step has overwritten a status that the new run had set.)
C19_OverlapNotExcluded ==
  /\ []((/\ ~isLoading
         /\ trim(question) # <<>>
         /\ AnimTimers # <<>>
         /\ Len(AnimTimers) < MaxLoops) => ENABLED (handleSubmit /\ Accepted))
  /\ [][Accepted =>
          \A i \in 1..Len(timers) :
            IsAnim(timers[i]) =>
              \E j \in 1..Len(timers') :
                timers'[j] = [timers[i] EXCEPT !.latest = FALSE,
                                               !.clean = FALSE]]_vars

\* a keyword, crud or greeting run was accepted while a reasoning run's loop
\* was on its way; the new run marked pathway skipped, and the stale loop has
\* since made it active
C19_Witness ==
  /\ \E i \in 1..Len(timers) :
       /\ IsAnim(timers[i])
       /\ timers[i].latest
       /\ timers[i].type # "reasoning"
  /\ \E j \in 1..Len(timers) :
       /\ IsAnim(timers[j])
       /\ ~timers[j].latest
       /\ timers[j].type = "reasoning"
       /\ timers[j].visited[Len(timers[j].visited)].node = "pathway"
  /\ nodes["pathway"] = "active"

ActiveNodes == {n \in NodeIds : nodes[n] = "active"}

\* C20: while a run that no other run overlaps is on step N, the node of step
\* N is the one node with status active; and the step of the loop that makes
\* the node of step N+1 active leaves the node of step N completed.
C20_SequentialSteps ==
  /\ [](\A i \in 1..Len(timers) :
          IsAnim(timers[i]) /\ timers[i].clean =>
            ActiveNodes = {ClaimedSteps[timers[i].type][timers[i].idx][1]})
  /\ [][\A i \in 1..Len(timers) :
          (IsAnim(timers[i]) /\ timers[i].clean /\ ~Accepted
             /\ nodes' # nodes) =>
            \A n \in NodeIds :
              nodes[n] = "active" => nodes'[n] = "completed"]_vars

\* a keyword run alone on its second step: ui is completed and fastapi is
\* the one active node
C20_Witness ==
  /\ \E i \in 1..Len(timers) :
       /\ IsAnim(timers[i])
       /\ timers[i].clean
       /\ timers[i].type = "keyword"
       /\ timers[i].idx = 2
  /\ nodes["ui"] = "completed"
  /\ ActiveNodes = {"fastapi"}

\* an edge drawn with the styling of an active edge
Highlighted(e) ==
  /\ edges[e].strokeWidth = 3
  /\ edges[e].opacity = "1"
  /\ edges[e].stroke \in {"#22c55e", "#f59e0b", "#3b82f6"}

\* the edges of the first idx steps of the sequence of type
ReachedEdges(type, idx) ==
  {ClaimedSteps[type][j][2] : j \in 1..idx} \ {""}

\* C21: while the most recent run is on step idx the highlighted edges are
\* the edges of its steps 1 .. idx, and once every loop has finished they are
\* the edges of the most recent run's path, whichever run came before.
C21_EdgeHighlight ==
  /\ \A i \in 1..Len(timers) :
       IsAnim(timers[i]) /\ timers[i].latest =>
         \A e \in EdgeIds :
           Highlighted(e) <=> e \in ReachedEdges(timers[i].type, timers[i].idx)
  /\ AnimTimers = <<>> /\ flowType # Unset =>
       \A e \in EdgeIds :
         Highlighted(e) <=>
           e \in ReachedEdges(flowType, Len(ClaimedSteps[flowType]))

\* the colour the specification gives an edge
ClaimedColour(activated, type, e) ==
  IF ~activated THEN "rgba(75, 85, 99, 0.3)"
  ELSE IF e = "fastapi-supabase" /\ type = "crud" THEN "#f59e0b"
  ELSE IF e = "fastapi-supabase" /\ type = "keyword" THEN "#3b82f6"
  ELSE "#22c55e"

\* C22: a step that restyles the edges gives every edge the colour that its
\* activation in the stepping run, the run's category and the edge id
\* determine: amber for the activated fastapi-supabase edge of a crud run,
\* blue for that of a keyword run, green for every other activated edge
\* (pathway-supabase of a reasoning run included), and the dimmed colour at
\* opacity 0.4 for every edge that is not activated.  (The loop that has
\* just stepped is the last entry of timers.)
C22_EdgeColours ==
  [][edges' # edges =>
       /\ timers' # <<>>
       /\ LET t == timers'[Len(timers')]
          IN  /\ IsAnim(t)
              /\ \A e \in EdgeIds :
                   LET activated == e \in ReachedEdges(t.type, t.idx)
                   IN  /\ edges'[e].stroke =
                            ClaimedColour(activated, t.type, e)
                       /\ edges'[e].markerColor = edges'[e].stroke
                       /\ edges'[e].opacity = IF activated THEN "1" ELSE "0.4"
                       /\ edges'[e].strokeWidth = IF activated THEN 3 ELSE 2]_vars

\* a crud run has reached supabase: its fastapi-supabase edge is amber,
\* ui-fastapi is green and the reasoning edges are dimmed
C22_Witness ==
  /\ \E i \in 1..Len(timers) :
       IsAnim(timers[i]) /\ timers[i].type = "crud" /\ timers[i].idx = 3
  /\ edges["fastapi-supabase"].stroke = "#f59e0b"
  /\ edges["ui-fastapi"].stroke = "#22c55e"
  /\ edges["pathway-supabase"].stroke = "rgba(75, 85, 99, 0.3)"
  /\ edges["pathway-supabase"].opacity = "0.4"

\* C23: an accepted submit clears the response, sets latency to null and
\* restarts the step counter while it records the category and the caption
\* of the submitted text; and in every state the category, the caption, the
\* response and the latency shown are those of the most recent submission:
\* nothing while it is loading, its own reply, greeting or error text and its
\* own latency afterwards.  (outcome is the history of the most recent
\* submission's backend call.)
C23_LatestRunOnly ==
  /\ [](flowType # Unset =>
          /\ caption = FLOW_CAPTIONS[flowType]
          /\ isLoading => /\ response = ""
                          /\ latency = Null
                          /\ flowType = queryTypeOf[question]
          /\ ~isLoading /\ flowType = "greeting" =>
               /\ includes(GREETING_RESPONSES, response)
               /\ latency >= GreetingDelayMs
          /\ ~isLoading /\ outcome = "ok" =>
               /\ response \in Replies
               /\ latency >= ContextDelayMs
          /\ outcome \in Failures =>
               /\ response = FailureResponse
               /\ latency = Null)
  /\ [][Accepted =>
          /\ response' = ""
          /\ latency' = Null
          /\ currentStep' = 1
          /\ flowType' = queryTypeOf[question]
          /\ caption' = FLOW_CAPTIONS[flowType']]_vars

\* a submission is loading after an earlier one had shown an answer and its
\* latency: the earlier run has finished its animation and nothing of its
\* record is left
C23_Witness ==
  /\ isLoading
  /\ doneRun.type = "reasoning"
  /\ flowType = "keyword"
  /\ response = ""
  /\ latency = Null
  /\ currentStep = 1

\* the node of the step on which the loop timers[i] is waiting
StepNode(i) == ClaimedSteps[timers[i].type][timers[i].idx][1]

\* C24: once every started loop has finished, whether or not loops
\* overlapped, every node is completed or skipped; a node is active only
\* while a loop that marked it is still to complete it; and the step of a
\* loop that follows its marking a node active leaves that node completed.
C24_NoNodeLeftActive ==
  /\ [](AnimTimers = <<>> /\ flowType # Unset =>
          \A n \in NodeIds : nodes[n] \in {"completed", "skipped"})
  /\ [](\A n \in NodeIds :
          nodes[n] = "active" =>
            \E i \in 1..Len(timers) : IsAnim(timers[i]) /\ StepNode(i) = n)
  /\ [][\A i \in 1..Len(timers) :
          (animateFlow /\ FirstDue(i) /\ IsAnim(timers[i])) =>
            nodes'[StepNode(i)] = "completed"]_vars

\* two overlapping runs have both finished: the greeting that came second
\* was overwritten by the reasoning loop, and still no node is active or
\* idle
C24_Witness ==
  /\ AnimTimers = <<>>
  /\ flowType = "greeting"
  /\ ~doneRun.clean
  /\ doneRun.type = "reasoning"
  /\ nodes["llm"] = "completed"
  /\ \A n \in NodeIds : nodes[n] \in {"completed", "skipped"}

\* C25: after disconnectWebSocket (the cleanup of the unmounted Dashboard) and
\* until connectWebSocket is called by a new mount, no WebSocket is created
\* and no socket is open to deliver a push event to the old callback
C25_DisconnectIsFinal ==
  /\ [][(~mounted /\ ~mounted') => Len(sockets') = Len(sockets)]_vars
  /\ [](~mounted => \A i \in 1..Len(sockets) : sockets[i].readyState # "open")

\* the position of the message of a sender with an id, 0 when there is none
Position(sender, id) ==
  IF \E j \in 1..Len(chatMessages) :
       chatMessages[j].sender = sender /\ chatMessages[j].id = id
  THEN CHOOSE j \in 1..Len(chatMessages) :
         chatMessages[j].sender = sender /\ chatMessages[j].id = id
  ELSE 0

\* C26: the chat list only grows at its end, every AI reply comes after the
\* user message it answers, the AI replies stand in the order of the user
\* messages they answer whatever the order of arrival, and a failed request
\* appends no AI message
C26_ChatOrder ==
  /\ [][/\ Len(chatMessages') >= Len(chatMessages)
        /\ SubSeq(chatMessages', 1, Len(chatMessages)) = chatMessages]_vars
  /\ [](\A j \in 1..Len(chatMessages) :
          chatMessages[j].sender = "ai"
            => /\ Position("user", chatMessages[j].id) \in 1..(j - 1)
               /\ \A k \in 1..(j - 1) :
                    chatMessages[k].sender = "ai"
                      => chatMessages[k].id < chatMessages[j].id)
  /\ [][handleSendMessageRejected => chatMessages' = chatMessages]_vars

\* the loadData call i of the rendered Dashboard settles
LoadSettles(i) ==
  /\ calls[i].api = "loadData"
  /\ calls[i].reply # Pending
  /\ Live(calls[i].inst)
  /\ loadDataResolved \/ loadDataRejected
  /\ calls' = Remove(calls, i) \/ calls' = Remove(Orphaned(calls), i)

\* C28: a loadData of which a fetch failed (getIncidents or getLiveUpdates,
\* by a network error or a status that is not 2xx) leaves incidents and
\* liveUpdates as they were and sets isLoading to false, so that a list that
\* is not empty is never replaced by the empty state
C28_FailedFetchKeepsData ==
  [][\A i \in 1..Len(calls) :
       (/\ LoadSettles(i)
        /\ ~calls[i].reply.incidentsOk \/ ~calls[i].reply.updatesOk)
         => /\ UNCHANGED <<incidents, liveUpdates>>
            /\ ~dashboard'.isLoading]_vars

\* C27: whatever the order in which the optimistic prepend of
\* handleCreateIncident and the loadData refreshes complete, no two entries
\* of the incident list of the Dashboard have the same id
C27_UniqueIds ==
  \A j \in 1..Len(incidents), k \in 1..Len(incidents) :
    j # k => incidents[j].id # incidents[k].id

\* the await of the create or update request i settles in a step
SubmitSettles(i) ==
  /\ calls[i].api \in {"createIncident", "updateIncident"}
  /\ calls[i].reply # Pending
  /\ Live(calls[i].inst)
  /\ IF calls[i].reply.status = "failed"
     THEN /\ handleCreateIncidentRejected \/ handleUpdateIncidentRejected
          /\ calls' = Remove(calls, i)
     ELSE IF calls[i].api = "createIncident"
     THEN /\ handleCreateIncidentResolved
          /\ calls' \in {Remove(calls, i), Remove(Orphaned(calls), i)}
     ELSE /\ handleUpdateIncidentResolved
          /\ calls' \in {Append(Remove(calls, i), loadData(calls[i].inst)),
                         Append(Remove(Orphaned(calls), i),
                                loadData(calls[i].inst))}

\* C29: when the backend rejects a create or an update, the handler leaves
\* incidents, isSyncing and the modals as they are and schedules no timer, and
\* the IncidentForm that submitted, if it is still rendered, records the
\* message of the error and sets loading to false; when the backend accepts,
\* the modal is closed and the list holds the incident of the answer (put in
\* front by a create, in the place of the entry of its id by an update)
C29_RejectedSubmit ==
  [][\A i \in 1..Len(calls) :
       SubmitSettles(i) =>
         IF calls[i].reply.status = "failed"
         THEN /\ UNCHANGED <<incidents, dashboard, timeouts>>
              /\ calls[i].form =>
                   /\ form'.error = ErrorMessage(calls[i].api,
                                                 calls[i].reply.failure)
                   /\ form'.error # Unset
                   /\ ~form'.loading
         ELSE IF calls[i].api = "createIncident"
         THEN /\ ~dashboard'.showCreateModal
              /\ dashboard'.isSyncing
              /\ Len(incidents') = Len(incidents) + 1
              /\ incidents'[1].id = calls[i].reply.incident.id
              /\ SubSeq(incidents', 2, Len(incidents')) = incidents
         ELSE /\ dashboard'.editingIncident = Null
              /\ Len(incidents') = Len(incidents)
              /\ \A j \in 1..Len(incidents) :
                   incidents'[j] =
                     IF incidents[j].id = calls[i].arg
                     THEN calls[i].reply.incident
                     ELSE incidents[j]]_vars

\* a create was rejected: the form is still open and shows the error
C29_Witness ==
  /\ dashboard.showCreateModal
  /\ form = [loading |-> FALSE, error |-> "Failed to create incident"]
  /\ incidents # <<>>

\* socket i hands the event it holds to ws.onmessage
Delivered(i) ==
  /\ sockets[i].inbox # Unset
  /\ sockets'[i].inbox = Unset
  /\ sockets'[i].readyState = "open"

\* the timer that a step fires: 0 when the step fires none
Fired ==
  IF Len(timeouts') < Len(timeouts)
  THEN CHOOSE k \in 1..Len(timeouts) : timeouts' = Remove(timeouts, k)
  ELSE 0

\* C30: an incident_created, incident_updated or incident_deleted event handed
\* to the callback of the Dashboard starts a timer of 5500 ms and nothing
\* else, a connected event starts none; a timer only counts down with the
\* clock, and when it is due it issues exactly one loadData of the Dashboard
\* that set it and leaves isSyncing false; loadData is issued by nothing but
\* mount and a due timer; isSyncing becomes true only together with a timer of
\* 5500 ms, and whenever it is true it becomes false later
C30_PushRefreshes ==
  /\ [][\A i \in 1..Len(sockets) :
          Delivered(i) =>
            /\ UNCHANGED <<calls, dashboard, incidents>>
            /\ IF sockets[i].inbox = "connected"
               THEN UNCHANGED timeouts
               ELSE timeouts' =
                      Append(timeouts, [kind |-> "refresh",
                                        left |-> RefreshDelayMs,
                                        inst |-> sockets[i].onUpdate])]_vars
  /\ [][/\ (/\ Len(timeouts') < Len(timeouts)
            /\ timeouts[Fired].kind \in {"refresh", "synced"}) =>
            /\ timeouts[Fired].left = 0
            /\ timeouts' = Remove(timeouts, Fired)
            /\ calls' = Append(calls, loadData(timeouts[Fired].inst))
            /\ Live(timeouts[Fired].inst) => ~dashboard'.isSyncing
        /\ (Len(timeouts') = Len(timeouts) /\ timeouts' # timeouts) =>
            LET d == timeouts[1].left - timeouts'[1].left
            IN  /\ d > 0
                /\ d <= DashTickMs
                /\ \A k \in 1..Len(timeouts) :
                     /\ timeouts[k].left >= d
                     /\ timeouts'[k] = [timeouts[k] EXCEPT !.left = @ - d]
        /\ Len(timeouts') > Len(timeouts) =>
            /\ SubSeq(timeouts', 1, Len(timeouts)) = timeouts
            /\ Len(timeouts') = Len(timeouts) + 1
            /\ timeouts'[Len(timeouts')].kind \in {"refresh", "synced"} =>
                 timeouts'[Len(timeouts')].left = RefreshDelayMs
        /\ (/\ Len(calls') > Len(calls)
            /\ calls'[Len(calls')].api = "loadData") =>
            \/ instance' # instance
            \/ /\ Len(timeouts') < Len(timeouts)
               /\ timeouts[Fired].kind \in {"refresh", "synced"}
        /\ (~dashboard.isSyncing /\ dashboard'.isSyncing) =>
            timeouts' = Append(timeouts, [kind |-> "synced",
                                          left |-> RefreshDelayMs,
                                          inst |-> instance])]_vars
  /\ dashboard.isSyncing ~> ~dashboard.isSyncing

\* a refresh set by a push event is due while the create before it is still
\* syncing
C30_Witness ==
  /\ dashboard.isSyncing
  /\ \E k \in 1..Len(timeouts) :
       timeouts[k].kind = "refresh" /\ timeouts[k].left = 0

====
